---- MODULE Spec2Model ----
(***************************************************************************)
(* A model of the iterup operator library (src/lib/methods.ts) and of the  *)
(* sources it is driven from (src/lib/core.ts).                            *)
(*                                                                         *)
(* Every iterator object of a chain is a node: a re-iterable array, the    *)
(* async generator iterup() builds over a collection, the async generator  *)
(* of a lazy operator, or the frame of a terminal operation.  A node keeps *)
(* the position its generator is suspended at (pc) and its locals.  One    *)
(* pull (next()) on a generator is the operator Next; a terminal operation *)
(* takes one step per iteration of its for-await loop.                     *)
(***************************************************************************)
EXTENDS Integers, Sequences, FiniteSets, TLC

VARIABLES nodes, cfg

vars == <<nodes, cfg>>

\* ------------------------------------------------------------ bounds
MaxLen == 3
MaxCount == 4
MaxCycles == 2
MaxExtra == 1
MaxObjects == 4
MaxSpin == 3

\* ------------------------------------------------------------ values
\* The None sentinel (a unique symbol) and JavaScript's undefined, as two
\* integers outside the element values.
None == 0
Undefined == -1
Vals == {1, 2}
SrcVals == Vals \cup {None}

RECURSIVE SeqsUpTo(_, _)
SeqsUpTo(S, n) ==
  IF n = 0 THEN {<<>>}
  ELSE LET shorter == SeqsUpTo(S, n - 1)
       IN shorter \cup {Append(s, x) : s \in {t \in shorter : Len(t) = n - 1}, x \in S}

\* ------------------------------------------------------------ callbacks
\* What a callback returns: a plain value or a promise of one.  On the
\* element cfg.bad the callback fails: it throws, or its promise rejects.
f(value) == [promise |-> cfg.async, val |-> cfg.f[value], err |-> value = cfg.bad]

\* `if (newValue instanceof Promise) newValue = await newValue`
AwaitIfPromise_skipped(r) == r
AwaitIfPromise(r) == IF r.promise THEN [r EXCEPT !.promise = FALSE] ELSE r

\* The failure has reached the caller: the callback threw, or the promise
\* that rejects has been awaited.
Throws(r) == r.err /\ ~r.promise

\* `newValue === None`: a promise object is never identical to the symbol.
IsNone_never(r) == FALSE
IsNone(r) == ~r.promise /\ r.val = None

\* `yield x` in an async generator and `return x` in an async function
\* await their operand.
Settle(r) == r.val

\* ------------------------------------------------------------ nodes
\* a pull that has not been started
NoPull == [state |-> "none", done |-> FALSE, value |-> Undefined, err |-> FALSE]

Node(kind, up, count, items) ==
  [kind |-> kind, up |-> up, pc |-> "start", count |-> count, items |-> items,
   pos |-> 0, cur |-> 0, cycle |-> 0, cpos |-> 0, cachedValues |-> <<>>,
   value |-> Undefined, calls |-> <<>>, pulls |-> 0,
   result |-> <<>>, ret |-> Undefined, extra |-> 0, late |-> <<>>,
   err |-> FALSE, acc |-> Undefined, pending |-> 0, up2 |-> 0, cur2 |-> 0,
   p1 |-> NoPull, p2 |-> NoPull, inner |-> <<>>, ipos |-> 0,
   tag |-> FALSE, target |-> 0, by |-> "input", prop |-> "",
   from |-> 0, to |-> 0, index |-> 0, inflight |-> 0, peak |-> 0, got |-> <<>>]

\* An IteratorResult; err: the pull rejected instead; hang: the pull never
\* settles.
Res(ns, done, value) ==
  [ns |-> ns, done |-> done, value |-> value, err |-> FALSE, hang |-> FALSE]

IsArray(ns, id) == ns[id].kind = "array"

RECURSIVE Next(_, _), Return(_, _)

\* GetIterator at the head of a for-await (or yield*): a fresh iterator for
\* an array, the generator itself for a generator.
OpenUp(ns, id) ==
  IF IsArray(ns, ns[id].up) THEN [ns EXCEPT ![id].cur = 0] ELSE ns

\* next() is called on the sequence up: one more pull on it is unresolved;
\* peak is the largest number of pulls that were unresolved at once.
StartPull(ns, up) ==
  [ns EXCEPT ![up].inflight = @ + 1,
             ![up].peak = IF ns[up].inflight + 1 > @ THEN ns[up].inflight + 1 ELSE @]

\* the pull on the sequence up has given the result r
Resolved(r, up) == IF r.hang THEN r ELSE [r EXCEPT !.ns[up].inflight = @ - 1]

\* the node id has received the result r of a pull: got holds the elements
\* it was given, in order
Given(r, id) == IF r.done THEN r ELSE [r EXCEPT !.ns[id].got = Append(@, r.value)]

\* next() on the generator up, awaited
Pull(ns, up) == Resolved(Next(StartPull(ns, up), up), up)

\* a consumer that calls next() again before its last call has resolved
PullUp_overlapping(ns, id) ==
  LET up == ns[id].up
      called == StartPull(StartPull(ns, up), up)
  IN
  Given(IF IsArray(ns, up)
        THEN LET c == ns[id].cur
                 ns1 == [called EXCEPT ![up].pulls = @ + 1]
             IN Resolved(IF c < Len(ns[up].items)
                         THEN Res([ns1 EXCEPT ![id].cur = c + 1], FALSE,
                                  ns[up].items[c + 1])
                         ELSE Res(ns1, TRUE, Undefined),
                         up)
        ELSE Resolved(Next(called, up), up),
        id)

\* One next() on the iterator node id holds over its upstream, awaited.
PullUp(ns, id) ==
  LET up == ns[id].up IN
  Given(IF IsArray(ns, up)
        THEN LET c == ns[id].cur
                 ns1 == [StartPull(ns, up) EXCEPT ![up].pulls = @ + 1]
             IN Resolved(IF c < Len(ns[up].items)
                         THEN Res([ns1 EXCEPT ![id].cur = c + 1], FALSE,
                                  ns[up].items[c + 1])
                         ELSE Res(ns1, TRUE, Undefined),
                         up)
        ELSE Pull(ns, up),
        id)

\* a for-await left by break or return that leaves its iterator open
CloseUp_left_open(ns, id) == ns

\* IteratorClose when a for-await is left by break or return: an array
\* iterator has no return method, a generator is sent return().
CloseUp(ns, id) ==
  IF IsArray(ns, ns[id].up) THEN ns ELSE Return(ns, ns[id].up)

\* a sequence that starts over after it has reported its end
Finish_reopen(ns, id) == Res([ns EXCEPT ![id].pc = "start"], TRUE, Undefined)
Finish(ns, id) == Res([ns EXCEPT ![id].pc = "done"], TRUE, Undefined)

\* The for-await over the upstream ended with result r: the generator runs to
\* its end, or the upstream's rejection leaves it as a throw.
Stop(r, id) ==
  [ns |-> [r.ns EXCEPT ![id].pc = IF r.hang THEN "spin" ELSE "done"], done |-> TRUE,
   value |-> Undefined, err |-> r.err, hang |-> r.hang]

\* The generator never reaches a yield or its end.
Hang(ns, id) ==
  [ns |-> [ns EXCEPT ![id].pc = "spin"], done |-> TRUE, value |-> Undefined,
   err |-> FALSE, hang |-> TRUE]

\* A throw inside the body of the for-await: the upstream is closed and the
\* generator completes with the throw.
Raise(ns, id) ==
  [ns |-> [CloseUp(ns, id) EXCEPT ![id].pc = "done"], done |-> TRUE,
   value |-> Undefined, err |-> TRUE, hang |-> FALSE]

Yield(ns, id, pc, value) == Res([ns EXCEPT ![id].pc = pc], FALSE, value)

\* ------------------------------------------------------------ sources
\* fromIterable: async function* () { for (const value of array) yield value }
fromIterable(ns, id) ==
  IF ns[id].pos < Len(ns[id].items)
  THEN Yield([ns EXCEPT ![id].pos = @ + 1], id, "yield", ns[id].items[ns[id].pos + 1])
  ELSE Finish(ns, id)

\* ------------------------------------------------------------ map
\* a map that passes each element on as it came
map_unmapped(ns, id) ==
  LET r == PullUp(IF ns[id].pc = "start" THEN OpenUp(ns, id) ELSE ns, id) IN
  IF r.done THEN Stop(r, id)
  ELSE Yield([r.ns EXCEPT ![id].calls = Append(@, r.value)], id, "yield", r.value)

map(ns, id) ==
  LET r == PullUp(IF ns[id].pc = "start" THEN OpenUp(ns, id) ELSE ns, id) IN
  IF r.done THEN Stop(r, id)
  ELSE LET newValue == AwaitIfPromise(f(r.value))
           ns1 == [r.ns EXCEPT ![id].calls = Append(@, r.value)]
       IN IF newValue.err THEN Raise(ns1, id)
          ELSE Yield(ns1, id, "yield", Settle(newValue))

\* ------------------------------------------------------------ take
\* `if (count-- <= 1) break`, tested when take is resumed after a yield
takeBreak_late(count) == count <= 0
takeBreak(count) == count <= 1

\* `if (count <= 0) return Iterator.from([])`
takeEmpty_zeroOnly(count) == count = 0
takeEmpty(count) == count <= 0

takePull(ns, id) ==
  LET r == PullUp(ns, id) IN
  IF r.done THEN Stop(r, id) ELSE Yield(r.ns, id, "yield", r.value)

\* takes on one upstream that count down one counter, that of the first
take_shared(ns, id) ==
  LET owner == CHOOSE j \in DOMAIN ns :
                 /\ ns[j].kind = "take" /\ ns[j].up = ns[id].up
                 /\ \A k \in DOMAIN ns :
                      (ns[k].kind = "take" /\ ns[k].up = ns[id].up) => j <= k
  IN IF ns[id].pc = "start"
     THEN IF takeEmpty(ns[owner].count) THEN Finish(ns, id)
          ELSE takePull(OpenUp(ns, id), id)
     ELSE LET ns1 == [ns EXCEPT ![owner].count = @ - 1] IN
          IF takeBreak(ns[owner].count) THEN Finish(CloseUp(ns1, id), id)
          ELSE takePull(ns1, id)

take(ns, id) ==
  IF ns[id].pc = "start"
  THEN IF takeEmpty(ns[id].count) THEN Finish(ns, id)
       ELSE takePull(OpenUp(ns, id), id)
  ELSE LET ns1 == [ns EXCEPT ![id].count = @ - 1] IN
       IF takeBreak(ns[id].count) THEN Finish(CloseUp(ns1, id), id)
       ELSE takePull(ns1, id)

\* ------------------------------------------------------------ filterMap
RECURSIVE filterMap(_, _)
filterMap(ns, id) ==
  LET r == PullUp(IF ns[id].pc = "start" THEN OpenUp(ns, id) ELSE ns, id) IN
  IF r.done THEN Stop(r, id)
  ELSE LET newValue == AwaitIfPromise(f(r.value))
           ns1 == [r.ns EXCEPT ![id].calls = Append(@, r.value), ![id].pc = "loop"]
       IN IF Throws(newValue) THEN Raise(ns1, id)
          ELSE IF IsNone(newValue) THEN filterMap(ns1, id)
          ELSE IF newValue.err THEN Raise(ns1, id)
          ELSE Yield(ns1, id, "yield", Settle(newValue))

\* ------------------------------------------------------------ flatMap
\* An element that is itself an array, [v], and what is inside it.
Box(v) == v + 10
Unbox(v) == IF v >= 10 THEN v - 10 ELSE v

\* The nested collection a flatMap callback hands back: none, the element
\* followed by its image, or the element followed by an array that holds it.
Nested(value, val) ==
  IF val = None THEN <<>>
  ELSE IF val = 1 THEN <<value, val>>
  ELSE <<value, Box(value)>>

\* a delegation that also opens the arrays it finds among the nested values
yieldStar_deep(ns, id) ==
  Yield([ns EXCEPT ![id].ipos = @ + 1], id, "inner", Unbox(ns[id].inner[ns[id].ipos + 1]))

\* `yield* newValues`: the next of the nested values, as it is
yieldStar(ns, id) ==
  Yield([ns EXCEPT ![id].ipos = @ + 1], id, "inner", ns[id].inner[ns[id].ipos + 1])

\* `yield* newValues` hands on the nested values one by one; once they are
\* used up the for-await asks the upstream for the next element.
RECURSIVE flatMap(_, _)
flatMap(ns, id) ==
  IF ns[id].pc = "inner" /\ ns[id].ipos < Len(ns[id].inner)
  THEN yieldStar(ns, id)
  ELSE LET r == PullUp(IF ns[id].pc = "start" THEN OpenUp(ns, id) ELSE ns, id) IN
       IF r.done THEN Stop(r, id)
       ELSE LET newValues == AwaitIfPromise(f(r.value))
                ns1 == [r.ns EXCEPT ![id].calls = Append(@, r.value)]
            IN IF newValues.err THEN Raise(ns1, id)
               ELSE flatMap([ns1 EXCEPT ![id].pc = "inner", ![id].ipos = 0,
                                        ![id].inner = Nested(r.value, Settle(newValues))],
                            id)

\* ------------------------------------------------------------ drop
\* `if (count <= 0) { yield* iterator; }`
dropDelegates(count) == count <= 0

\* `if (count-- > 0) continue`
dropSkips_one_more(count) == count >= 0
dropSkips(count) == count > 0

\* the for-await loop that follows the yield*
RECURSIVE dropLoop(_, _)
dropLoop(ns, id) ==
  LET r == PullUp(ns, id) IN
  IF r.done THEN Stop(r, id)
  ELSE LET ns1 == [r.ns EXCEPT ![id].count = @ - 1] IN
       IF dropSkips(ns[id].count) THEN dropLoop(ns1, id)
       ELSE Yield(ns1, id, "loop", r.value)

\* `yield* iterator`: every value of the delegate is yielded; when it is
\* exhausted control falls through to the for-await, which asks the same
\* `iterator` for an iterator again.
dropDelegate(ns, id) ==
  LET r == PullUp(ns, id) IN
  IF r.err \/ r.hang THEN Stop(r, id)
  ELSE IF r.done THEN dropLoop(OpenUp(r.ns, id), id)
  ELSE Yield(r.ns, id, "delegate", r.value)

drop(ns, id) ==
  IF ns[id].pc = "start"
  THEN IF dropDelegates(ns[id].count) THEN dropDelegate(OpenUp(ns, id), id)
       ELSE dropLoop(OpenUp(ns, id), id)
  ELSE IF ns[id].pc = "delegate" THEN dropDelegate(ns, id)
  ELSE dropLoop(ns, id)

\* ------------------------------------------------------------ cycle
\* `if (cycles <= 0) return`
cycleEmpty(cycles) == cycles <= 0

\* `cycles: number = Infinity`
Infinity == 999999

\* `initialCycle = cycle === 0`
initialCycle_always(n) == TRUE
initialCycle(n) == n = 0

\* `for (let cycle = 0; cycle < cycles; cycle++)`
cycleContinues_one_less(n, cycles) == n + 1 < cycles
cycleContinues(n, cycles) == n < cycles

\* a first repetition that asks for one element more than it hands on
cycleInner_prefetch(ns, id) ==
  LET r == PullUp(ns, id) IN
  IF r.done THEN Stop(r, id)
  ELSE Yield([PullUp(r.ns, id).ns EXCEPT ![id].value = r.value], id, "yield", r.value)

RECURSIVE cycleInner(_, _)

\* the inner for-await is exhausted: `cycle++`, the loop test, and the head
\* of the next inner for-await
cycleOuter(ns, id) ==
  LET ns1 == [ns EXCEPT ![id].cycle = @ + 1, ![id].cpos = 0] IN
  IF ns1[id].count = Infinity /\ ns1[id].cachedValues = <<>> THEN Hang(ns1, id)
  ELSE IF cycleContinues(ns1[id].cycle, ns1[id].count)
  THEN cycleInner(IF initialCycle(ns1[id].cycle) THEN OpenUp(ns1, id) ELSE ns1, id)
  ELSE Finish(ns1, id)

\* `for await (const value of initialCycle ? iterator : cachedValues)`
cycleInner(ns, id) ==
  IF initialCycle(ns[id].cycle)
  THEN LET r == PullUp(ns, id) IN
       IF r.err \/ r.hang THEN Stop(r, id)
       ELSE IF r.done THEN cycleOuter(r.ns, id)
       ELSE Yield([r.ns EXCEPT ![id].value = r.value], id, "yield", r.value)
  ELSE IF ns[id].cpos < Len(ns[id].cachedValues)
       THEN LET v == ns[id].cachedValues[ns[id].cpos + 1] IN
            Yield([ns EXCEPT ![id].cpos = @ + 1, ![id].value = v], id, "yield", v)
       ELSE cycleOuter(ns, id)

\* resumed after `yield value`: `if (initialCycle) cachedValues.push(value)`
cycleResume(ns, id) ==
  IF initialCycle(ns[id].cycle)
  THEN [ns EXCEPT ![id].cachedValues = Append(@, ns[id].value)]
  ELSE ns

cycle_unguarded(ns, id) ==
  IF ns[id].pc = "start" THEN cycleInner(OpenUp(ns, id), id)
  ELSE cycleInner(cycleResume(ns, id), id)

cycle(ns, id) ==
  IF ns[id].pc = "start"
  THEN IF cycleEmpty(ns[id].count) THEN Finish(ns, id)
       ELSE IF cycleContinues(0, ns[id].count) THEN cycleInner(OpenUp(ns, id), id)
       ELSE Finish(ns, id)
  ELSE cycleInner(cycleResume(ns, id), id)

\* ------------------------------------------------------------ enumerate
\* `yield [value, index++]`
\* an enumerate that counts from 1
enumerateBody_from_one(r, id) ==
  IF r.done THEN Stop(r, id)
  ELSE Yield([r.ns EXCEPT ![id].index = @ + 1], id, "yield", <<r.value, r.ns[id].index + 1>>)

enumerateBody(r, id) ==
  IF r.done THEN Stop(r, id)
  ELSE Yield([r.ns EXCEPT ![id].index = @ + 1], id, "yield", <<r.value, r.ns[id].index>>)

enumerate(ns, id) ==
  enumerateBody(PullUp(IF ns[id].pc = "start" THEN OpenUp(ns, id) ELSE ns, id), id)

\* ------------------------------------------------------------ range
\* `to = Number.MAX_SAFE_INTEGER`, beyond every count a bounded run reaches
DefaultTo == 2147483647

\* `if (from > to)`
rangeEmpty(from, to) == from > to

\* `count <= to`
rangeContinues_exclusive(count, to) == count < to
rangeContinues(count, to) == count <= to

\* the for loop from its test on
rangeLoop(ns, id) ==
  IF rangeContinues(ns[id].count, ns[id].to) THEN Yield(ns, id, "yield", ns[id].count)
  ELSE Finish(ns, id)

range(ns, id) ==
  IF ns[id].pc = "start"
  THEN IF rangeEmpty(ns[id].from, ns[id].to) THEN Finish(ns, id)
       ELSE rangeLoop([ns EXCEPT ![id].count = ns[id].from], id)
  ELSE rangeLoop([ns EXCEPT ![id].count = @ + 1], id)

\* ------------------------------------------------------------ zip, pull by pull
unwrapResult(r) == IF r.done THEN None ELSE r.value

\* One next() of zip on `iterator` (side 1) or `anotherIterator` (side 2).  An
\* array has been replaced by Iterator.from(array), taken once before the loop.
PullSide(ns, id, side) ==
  LET up == IF side = 1 THEN ns[id].up ELSE ns[id].up2
      c == IF side = 1 THEN ns[id].cur ELSE ns[id].cur2
  IN IF IsArray(ns, up)
     THEN LET ns1 == [StartPull(ns, up) EXCEPT ![up].pulls = @ + 1] IN
          Resolved(IF c < Len(ns[up].items)
                   THEN Res(IF side = 1 THEN [ns1 EXCEPT ![id].cur = c + 1]
                                         ELSE [ns1 EXCEPT ![id].cur2 = c + 1],
                            FALSE, ns[up].items[c + 1])
                   ELSE Res(ns1, TRUE, Undefined),
                   up)
     ELSE Pull(ns, up)

\* a next() that has been called and whose result is yet to be awaited
Started(r) == [state |-> "pending", done |-> r.done, value |-> r.value, err |-> r.err]

\* `Promise.all([iterator.next(), anotherIterator.next()])`: the array of the
\* two calls is built first, then the promise of both is awaited.
zipCalls_first_only(ns, id) ==
  LET oneResult == PullSide(ns, id, 1)
  IN [oneResult.ns EXCEPT ![id].p1 = Started(oneResult), ![id].pc = "await"]

zipCalls(ns, id) ==
  LET oneResult == PullSide(ns, id, 1)
      anotherResult == PullSide(oneResult.ns, id, 2)
  IN [anotherResult.ns EXCEPT ![id].p1 = Started(oneResult),
                              ![id].p2 = Started(anotherResult), ![id].pc = "await"]

\* `[oneValue, anotherValue]`
zipPair_swapped(oneValue, anotherValue) == <<anotherValue, oneValue>>
zipPair(oneValue, anotherValue) == <<oneValue, anotherValue>>

\* one pull on zip: the two results awaited together, compared with None,
\* paired
\* a zip that goes on until both sides have ended
zipBody_until_both(oneResult, anotherResult, id) ==
  IF oneResult.err \/ anotherResult.err
  THEN [ns |-> [anotherResult.ns EXCEPT ![id].pc = "done"], done |-> TRUE,
        value |-> Undefined, err |-> TRUE, hang |-> FALSE]
  ELSE IF unwrapResult(oneResult) = None /\ unwrapResult(anotherResult) = None
  THEN Finish(anotherResult.ns, id)
  ELSE Yield(anotherResult.ns, id, "yield", zipPair(oneResult.value, anotherResult.value))

zipBody(oneResult, anotherResult, id) ==
  IF oneResult.err \/ anotherResult.err
  THEN [ns |-> [anotherResult.ns EXCEPT ![id].pc = "done"], done |-> TRUE,
        value |-> Undefined, err |-> TRUE, hang |-> FALSE]
  ELSE IF unwrapResult(oneResult) = None \/ unwrapResult(anotherResult) = None
  THEN Finish(anotherResult.ns, id)
  ELSE Yield(anotherResult.ns, id, "yield", zipPair(oneResult.value, anotherResult.value))

zipAll(oneResult, id) == zipBody(oneResult, PullSide(oneResult.ns, id, 2), id)

zip(ns, id) == zipAll(PullSide(ns, id, 1), id)

\* ------------------------------------------------------------ native forwarding
\* a handle that keeps a place of its own in what its target holds
forward_replayed(ns, id) ==
  IF ns[id].pos < Len(ns[ns[id].target].items)
  THEN Res([ns EXCEPT ![id].pos = @ + 1], FALSE, ns[ns[id].target].items[ns[id].pos + 1])
  ELSE Res(ns, TRUE, Undefined)

\* `h.next()`: the get trap finds no extension of that name, takes the
\* target's own function and calls it on the target.
forward(ns, id) == Pull(ns, ns[id].target)

\* ------------------------------------------------------------ dispatch
Next(ns, id) ==
  LET ns1 == [ns EXCEPT ![id].pulls = @ + 1] IN
  IF ns[id].pc = "done" THEN Res(ns1, TRUE, Undefined)
  ELSE IF ns[id].pc = "spin" THEN Hang(ns1, id)
  ELSE CASE ns[id].kind = "gen" -> fromIterable(ns1, id)
         [] ns[id].kind = "map" -> map(ns1, id)
         [] ns[id].kind = "take" -> take(ns1, id)
         [] ns[id].kind = "drop" -> drop(ns1, id)
         [] ns[id].kind = "filterMap" -> filterMap(ns1, id)
         [] ns[id].kind = "cycle" -> cycle(ns1, id)
         [] ns[id].kind = "flatMap" -> flatMap(ns1, id)
         [] ns[id].kind = "enumerate" -> enumerate(ns1, id)
         [] ns[id].kind = "range" -> range(ns1, id)
         [] ns[id].kind = "zip" -> zip(ns1, id)
         [] ns[id].kind = "proxy" -> forward(ns1, id)

\* generator.return(): a suspended generator completes; one suspended inside
\* a for-await (or yield*) over its upstream closes that upstream first.
Return(ns, id) ==
  IF ns[id].kind = "proxy" THEN Return(ns, ns[id].target)
  ELSE IF ns[id].pc \in {"done", "start"} THEN [ns EXCEPT ![id].pc = "done"]
  ELSE IF ns[id].pc = "spin" THEN ns
  ELSE CASE ns[id].kind \in {"gen", "range"} -> [ns EXCEPT ![id].pc = "done"]
         [] ns[id].kind = "cycle" /\ ~initialCycle(ns[id].cycle) ->
              [ns EXCEPT ![id].pc = "done"]
         [] ns[id].kind = "zip" -> [ns EXCEPT ![id].pc = "done"]
         [] OTHER -> [CloseUp(ns, id) EXCEPT ![id].pc = "done"]

\* ------------------------------------------------------------ terminals
\* the terminal call has neither settled nor stalled on a pull
Running(id) == nodes[id].pc \notin {"done", "spin"}

\* where a terminal is left by the end r of its for-await
Ended(r) == IF r.hang THEN "spin" ELSE "done"

\* collect: one iteration of `for await (const value of iterator) result.push(value)`
collect(id) ==
  /\ nodes[id].kind = "collect"
  /\ Running(id)
  /\ LET r == PullUp(IF nodes[id].pc = "start" THEN OpenUp(nodes, id) ELSE nodes, id)
     IN nodes' = IF r.done THEN [r.ns EXCEPT ![id].pc = Ended(r), ![id].err = r.err]
                 ELSE [r.ns EXCEPT ![id].pc = "loop", ![id].result = Append(@, r.value)]
  /\ UNCHANGED cfg

\* findMap: one iteration of its for-await loop; `return newValue` leaves
\* the loop and closes the iterator, falling off the end returns undefined.
findMap(id) ==
  /\ nodes[id].kind = "findMap"
  /\ Running(id)
  /\ LET r == PullUp(IF nodes[id].pc = "start" THEN OpenUp(nodes, id) ELSE nodes, id)
     IN IF r.done
        THEN nodes' = [r.ns EXCEPT ![id].pc = Ended(r), ![id].ret = Undefined,
                                   ![id].err = r.err]
        ELSE LET newValue == AwaitIfPromise(f(r.value))
                 ns1 == [r.ns EXCEPT ![id].calls = Append(@, r.value)]
             IN nodes' = IF Throws(newValue)
                         THEN [CloseUp(ns1, id) EXCEPT ![id].pc = "done", ![id].err = TRUE]
                         ELSE IF IsNone(newValue) THEN [ns1 EXCEPT ![id].pc = "loop"]
                         ELSE [CloseUp(ns1, id) EXCEPT ![id].pc = "done",
                                                       ![id].err = newValue.err,
                                                       ![id].ret = Settle(newValue)]
  /\ UNCHANGED cfg

\* ------------------------------------------------------------ fold family
\* The combiner handed to fold and reduce: it tells apart the order and the
\* number of the elements folded in.
Combine(accumulator, value) == 4 * accumulator + value + 1

\* `f(accumulator, value)`: a plain value or a promise of one
fAcc(accumulator, value) ==
  [promise |-> cfg.async, val |-> Combine(accumulator, value), err |-> value = cfg.bad]

\* a fold that hands f the seed instead of the accumulator
foldCall_from_seed(ns, id, value) ==
  [ns |-> [ns EXCEPT ![id].calls = Append(@, value)], err |-> value = cfg.bad,
   val |-> Combine(cfg.seed, value)]

\* fold's own step `await f(accumulator, value)`
foldCall(ns, id, value) ==
  LET a == AwaitIfPromise(fAcc(ns[id].acc, value)) IN
  [ns |-> [ns EXCEPT ![id].calls = Append(@, value)], err |-> a.err, val |-> Settle(a)]

\* the callback forEach gives to fold: `(_, value) => { f(value); return undefined; }`
\* What f returns is dropped: a promise stays pending, nothing awaits it.
forEachCall(ns, id, value) ==
  LET r == f(value) IN
  [ns |-> [ns EXCEPT ![id].calls = Append(@, value),
                     ![id].pending = IF r.promise THEN @ + 1 ELSE @],
   err |-> Throws(r), val |-> Undefined]

\* The number big * 2^53 + v, for v far smaller than 2^53; num tells a number
\* from any other element.
Num(big, v) == [num |-> TRUE, big |-> big, v |-> v]
\* the string "Ten"
Ten == [num |-> FALSE, big |-> 0, v |-> 0]

\* Number.MAX_SAFE_INTEGER = 2^53 - 1 and Number.MIN_SAFE_INTEGER = -(2^53 - 1)
MAX_SAFE_INTEGER == Num(1, -1)
MIN_SAFE_INTEGER == Num(-1, 1)

\* `a < b` on numbers
Less(a, b) == a.big < b.big \/ (a.big = b.big /\ a.v < b.v)

\* `sum + value`, exact while both lie in the safe range
Plus(a, b) == Num(a.big + b.big, a.v + b.v)

\* `typeof value !== "number"` is false
IsNumber_any(value) == TRUE
IsNumber(value) == value.num

\* The callbacks sum, min and max give to fold; each throws a TypeError on
\* an element that is not a number.
sumCall(ns, id, value) ==
  IF ~IsNumber(value) THEN [ns |-> ns, err |-> TRUE, val |-> Undefined]
  ELSE [ns |-> [ns EXCEPT ![id].calls = Append(@, value)], err |-> FALSE,
        val |-> Plus(ns[id].acc, value)]

minCall(ns, id, value) ==
  IF ~IsNumber(value) THEN [ns |-> ns, err |-> TRUE, val |-> Undefined]
  ELSE [ns |-> [ns EXCEPT ![id].calls = Append(@, value)], err |-> FALSE,
        val |-> IF Less(value, ns[id].acc) THEN value ELSE ns[id].acc]

maxCall(ns, id, value) ==
  IF ~IsNumber(value) THEN [ns |-> ns, err |-> TRUE, val |-> Undefined]
  ELSE [ns |-> [ns EXCEPT ![id].calls = Append(@, value)], err |-> FALSE,
        val |-> IF Less(ns[id].acc, value) THEN value ELSE ns[id].acc]

\* the callback f that the terminal at node id has given to fold
foldCallback(ns, id, value) ==
  CASE ns[id].kind = "forEach" -> forEachCall(ns, id, value)
    [] ns[id].kind = "sum" -> sumCall(ns, id, value)
    [] ns[id].kind = "min" -> minCall(ns, id, value)
    [] ns[id].kind = "max" -> maxCall(ns, id, value)
    [] OTHER -> foldCall(ns, id, value)

\* One iteration of fold's `for await (const value of iterator)`, and
\* `return accumulator` when the loop ends.
foldLoop(ns, id) ==
  LET r == PullUp(ns, id) IN
  IF r.done
  THEN [r.ns EXCEPT ![id].pc = Ended(r), ![id].err = r.err,
                    ![id].ret = IF r.err \/ r.hang THEN Undefined ELSE r.ns[id].acc]
  ELSE LET c == foldCallback(r.ns, id, r.value) IN
       IF c.err THEN [CloseUp(c.ns, id) EXCEPT ![id].pc = "done", ![id].err = TRUE]
       ELSE [c.ns EXCEPT ![id].pc = "loop", ![id].acc = c.val]

fold(id) ==
  /\ nodes[id].kind = "fold"
  /\ Running(id)
  /\ nodes' = foldLoop(IF nodes[id].pc = "start" THEN OpenUp(nodes, id) ELSE nodes, id)
  /\ UNCHANGED cfg

forEach(id) ==
  /\ nodes[id].kind = "forEach"
  /\ Running(id)
  /\ nodes' = foldLoop(IF nodes[id].pc = "start" THEN OpenUp(nodes, id) ELSE nodes, id)
  /\ UNCHANGED cfg

\* a promise of a callback that nothing awaits settles on its own
settle(id) ==
  /\ nodes[id].pending > 0
  /\ nodes' = [nodes EXCEPT ![id].pending = @ - 1]
  /\ UNCHANGED cfg

\* `firstResult === None`
reduceEmpty_never(firstResult) == FALSE
reduceEmpty(firstResult) == firstResult = None

\* reduce: the first next() on `Iterator.from(iterator)` or on the iterator
\* itself, then fold over what is left of that same iterator.
reduce(id) ==
  /\ nodes[id].kind = "reduce"
  /\ Running(id)
  /\ IF nodes[id].pc = "start"
     THEN LET r == PullUp(OpenUp(nodes, id), id)
              firstResult == unwrapResult(r)
          IN nodes' = IF r.err \/ r.hang
                      THEN [r.ns EXCEPT ![id].pc = Ended(r), ![id].err = r.err]
                      ELSE IF reduceEmpty(firstResult)
                      THEN [r.ns EXCEPT ![id].pc = "done", ![id].ret = Undefined]
                      ELSE [r.ns EXCEPT ![id].pc = "loop", ![id].acc = firstResult]
     ELSE nodes' = foldLoop(nodes, id)
  /\ UNCHANGED cfg

\* `if (f(value))`: a promise is an object, and an object is truthy
Truthy(r) == r.promise \/ r.val = TRUE

\* filter: one iteration of its for-await; f(value) is tested as it is
\* returned, `return value` leaves the loop and closes the iterator.
filter(id) ==
  /\ nodes[id].kind = "filter"
  /\ Running(id)
  /\ LET r == PullUp(IF nodes[id].pc = "start" THEN OpenUp(nodes, id) ELSE nodes, id)
     IN IF r.done
        THEN nodes' = [r.ns EXCEPT ![id].pc = Ended(r), ![id].ret = Undefined,
                                   ![id].err = r.err]
        ELSE LET c == f(r.value)
                 ns1 == [r.ns EXCEPT ![id].calls = Append(@, r.value),
                                     ![id].pending = IF c.promise THEN @ + 1 ELSE @]
             IN nodes' = IF Throws(c)
                         THEN [CloseUp(ns1, id) EXCEPT ![id].pc = "done", ![id].err = TRUE]
                         ELSE IF Truthy(c)
                         THEN [CloseUp(ns1, id) EXCEPT ![id].pc = "done", ![id].ret = r.value]
                         ELSE [ns1 EXCEPT ![id].pc = "loop"]
  /\ UNCHANGED cfg

\* A consumer that holds the sequence a finished terminal operation drove
\* calls next() on it once more.
PullPastEnd(id) ==
  /\ nodes[id].kind \in {"collect", "findMap"}
  /\ nodes[id].pc = "done"
  /\ nodes[id].extra < MaxExtra
  /\ ~IsArray(nodes, nodes[id].up)
  /\ LET r == Next(nodes, nodes[id].up)
     IN nodes' = [r.ns EXCEPT ![id].extra = @ + 1,
                              ![id].late = IF r.done THEN @ ELSE Append(@, r.value)]
  /\ UNCHANGED cfg

\* ------------------------------------------------------------ chains
Source(kind, items) == Node(kind, 0, 0, items)

\* source -> map(f) -> take(n) -> collect
MapTake(c) ==
  << Source(c.kind, c.items), Node("map", 1, 0, <<>>), Node("take", 2, c.n, <<>>),
     Node("collect", 3, 0, <<>>) >>

\* source -> map(f) -> cycle(k) -> collect
MapCycle(c) ==
  << Source(c.kind, c.items), Node("map", 1, 0, <<>>), Node("cycle", 2, c.n, <<>>),
     Node("collect", 3, 0, <<>>) >>

\* source -> map(f) -> cycle() -> take(n) -> collect
MapCycleTake(c) ==
  << Source(c.kind, c.items), Node("map", 1, 0, <<>>), Node("cycle", 2, Infinity, <<>>),
     Node("take", 3, c.n, <<>>), Node("collect", 4, 0, <<>>) >>

\* source -> filterMap(f) -> collect
FilterMapChain(c) ==
  << Source(c.kind, c.items), Node("filterMap", 1, 0, <<>>), Node("collect", 2, 0, <<>>) >>

\* source -> findMap(f)
FindMapChain(c) ==
  << Source(c.kind, c.items), Node("findMap", 1, 0, <<>>) >>

\* fold(source, seed, f)
FoldChain(c) ==
  << Source(c.kind, c.items), [Node("fold", 1, 0, <<>>) EXCEPT !.acc = c.seed] >>

\* reduce(source, f)
ReduceChain(c) == << Source(c.kind, c.items), Node("reduce", 1, 0, <<>>) >>

\* forEach(source, f)
ForEachChain(c) == << Source(c.kind, c.items), Node("forEach", 1, 0, <<>>) >>

\* filter(source, f)
FilterChain(c) == << Source(c.kind, c.items), Node("filter", 1, 0, <<>>) >>

\* source -> flatMap(f) -> collect
FlatMapChain(c) ==
  << Source(c.kind, c.items), Node("flatMap", 1, 0, <<>>), Node("collect", 2, 0, <<>>) >>

\* zip(a, b) -> collect
ZipChain(c) ==
  << Source(c.kind, c.items), Source(c.kind2, c.items2),
     [Node("zip", 1, 0, <<>>) EXCEPT !.up2 = 2], Node("collect", 3, 0, <<>>) >>

\* sum(source), min(source), max(source)
NumericChain(c) == << Source(c.kind, c.items), Node(c.shape, 1, 0, <<>>) >>

\* take(s, n) -> collect and drop(s, n) -> collect, each on its own traversal
\* of the same collection: the array itself, or one iterup(s) for each.
TakeDrop(c) ==
  << Source(c.kind, c.items), Node("take", 1, c.n, <<>>), Node("collect", 2, 0, <<>>),
     Source(c.kind, c.items), Node("drop", 4, c.n, <<>>), Node("collect", 5, 0, <<>>) >>

\* source -> cycle() -> take(n) -> collect
CycleTake(c) ==
  << Source(c.kind, c.items), Node("cycle", 1, Infinity, <<>>),
     Node("take", 2, c.n, <<>>), Node("collect", 3, 0, <<>>) >>

Chain(c) ==
  CASE c.shape = "mapTake" -> MapTake(c)
    [] c.shape = "cycleTake" -> CycleTake(c)
    [] c.shape = "mapCycle" -> MapCycle(c)
    [] c.shape = "mapCycleTake" -> MapCycleTake(c)
    [] c.shape = "filterMap" -> FilterMapChain(c)
    [] c.shape = "findMap" -> FindMapChain(c)
    [] c.shape = "takeDrop" -> TakeDrop(c)
    [] c.shape = "fold" -> FoldChain(c)
    [] c.shape = "reduce" -> ReduceChain(c)
    [] c.shape = "forEach" -> ForEachChain(c)
    [] c.shape = "filter" -> FilterChain(c)
    [] c.shape = "flatMap" -> FlatMapChain(c)
    [] c.shape = "zip" -> ZipChain(c)
    [] c.shape \in {"sum", "min", "max"} -> NumericChain(c)

Kinds == {"array", "gen"}
Sources == SeqsUpTo(SrcVals, MaxLen)
Counts == (-1) .. MaxCount
Cycles == (-1) .. MaxCycles
\* Option-producing callbacks, and the transforms given to map
Callbacks == [SrcVals -> SrcVals]
Transforms == {fn \in Callbacks : fn[None] = None}
NoCallback == [v \in SrcVals |-> v]

Config(shape, kind, items, n, fn, async) ==
  [shape |-> shape, kind |-> kind, items |-> items, n |-> n, f |-> fn, async |-> async,
   bad |-> Undefined, items2 |-> <<>>, seed |-> 0, kind2 |-> "array",
   op |-> "", arg |-> <<>>, op2 |-> "", n2 |-> 0]

\* the same call with a callback that fails on the element bad
Failing(c, bad) == [c EXCEPT !.bad = bad]
Seeded(c, seed) == [c EXCEPT !.seed = seed]
Zipped(c, kind2, items2) == [c EXCEPT !.kind2 = kind2, !.items2 = items2]

\* boolean predicates, the elements a callback may fail on (Undefined: on
\* none), and the seeds handed to fold
Predicates == [SrcVals -> BOOLEAN]
Bads == SrcVals \cup {Undefined}
Seeds == {None} \cup Vals
\* what the second source of a zip holds
Sources2 == SeqsUpTo({None, 3}, MaxLen)

Start(c) == cfg = c /\ nodes = Chain(c)

Init ==
  \/ \E k \in Kinds, s \in Sources, n \in Counts, fn \in Transforms, a \in BOOLEAN :
       Start(Config("mapTake", k, s, n, fn, a))
  \/ \E k \in Kinds, s \in Sources, n \in Cycles, fn \in Transforms, a \in BOOLEAN :
       Start(Config("mapCycle", k, s, n, fn, a))
  \/ \E k \in Kinds, s \in Sources, n \in Counts, fn \in Transforms, a \in BOOLEAN :
       Start(Config("mapCycleTake", k, s, n, fn, a))
  \/ \E k \in Kinds, s \in Sources, fn \in Callbacks, a \in BOOLEAN :
       Start(Config("filterMap", k, s, 0, fn, a))
  \/ \E k \in Kinds, s \in Sources, fn \in Callbacks, a \in BOOLEAN :
       Start(Config("findMap", k, s, 0, fn, a))
  \/ \E k \in Kinds, s \in Sources, n \in Counts :
       Start(Config("takeDrop", k, s, n, NoCallback, FALSE))

Step ==
  \/ \E id \in DOMAIN nodes : collect(id)
  \/ \E id \in DOMAIN nodes : findMap(id)
  \/ \E id \in DOMAIN nodes : PullPastEnd(id)

Spec == Init /\ [][Step]_vars

\* ------------------------------------------------------------ folding terminals
InitFold ==
  \/ \E k \in Kinds, s \in Sources, seed \in Seeds, a \in BOOLEAN, b \in Bads :
       Start(Seeded(Failing(Config("fold", k, s, 0, NoCallback, a), b), seed))
  \/ \E k \in Kinds, s \in Sources, a \in BOOLEAN, b \in Bads :
       Start(Failing(Config("reduce", k, s, 0, NoCallback, a), b))
  \/ \E k \in Kinds, s \in Sources, a \in BOOLEAN, b \in Bads :
       Start(Failing(Config("forEach", k, s, 0, NoCallback, a), b))
  \/ \E k \in Kinds, s \in Sources, fn \in Predicates, a \in BOOLEAN, b \in Bads :
       Start(Failing(Config("filter", k, s, 0, fn, a), b))
  \/ \E k \in Kinds, s \in Sources, fn \in Transforms, a \in BOOLEAN, b \in Bads :
       Start(Failing(Config("flatMap", k, s, 0, fn, a), b))
  \/ \E k \in Kinds, s \in Sources, fn \in Transforms, a \in BOOLEAN, b \in Bads :
       Start(Failing(Config("findMap", k, s, 0, fn, a), b))

StepFold ==
  \/ \E id \in DOMAIN nodes : fold(id)
  \/ \E id \in DOMAIN nodes : reduce(id)
  \/ \E id \in DOMAIN nodes : forEach(id)
  \/ \E id \in DOMAIN nodes : filter(id)
  \/ \E id \in DOMAIN nodes : settle(id)
  \/ \E id \in DOMAIN nodes : collect(id)
  \/ \E id \in DOMAIN nodes : findMap(id)

SpecFold == InitFold /\ [][StepFold]_vars
\* ------------------------------------------------------------ expectations
Min(a, b) == IF a < b THEN a ELSE b

\* the awaited result of the callback on every element of s
Mapped(s) == [i \in 1 .. Len(s) |-> cfg.f[s[i]]]

RECURSIVE WithoutNone(_)
WithoutNone(s) ==
  IF s = <<>> THEN <<>>
  ELSE IF Head(s) = None THEN WithoutNone(Tail(s))
  ELSE <<Head(s)>> \o WithoutNone(Tail(s))

RECURSIVE Repeated(_, _)
Repeated(s, k) == IF k <= 0 THEN <<>> ELSE s \o Repeated(s, k - 1)

IsPrefix(p, s) == Len(p) <= Len(s) /\ p = SubSeq(s, 1, Len(p))

\* positions of s whose callback result is not None
Matches(s) == {i \in 1 .. Len(s) : cfg.f[s[i]] # None}
FirstMatch(s) == CHOOSE i \in Matches(s) : \A j \in Matches(s) : i <= j

\* how many elements consumer `id` has been handed by source `src`
Delivered(src, id) ==
  IF nodes[src].kind = "array" THEN nodes[id].cur ELSE nodes[src].pos

Finished(id) == nodes[id].pc = "done"

\* ------------------------------------------------------------ claims
\* C1: in source -> map(f) -> take(n) -> collect with 0 <= n <= length(source),
\* f is invoked at most n times and take requests at most n elements of its
\* upstream, also after take's result has been pulled past its end.
C1_TakeIsLazy ==
  (cfg.shape = "mapTake" /\ 0 <= cfg.n /\ cfg.n <= Len(cfg.items)) =>
    /\ Len(nodes[2].calls) <= cfg.n
    /\ nodes[2].pulls <= cfg.n

C1_Witness ==
  /\ cfg.shape = "mapTake"
  /\ 1 <= cfg.n /\ cfg.n < Len(cfg.items)
  /\ Finished(4) /\ nodes[4].extra = 1
  /\ Len(nodes[2].calls) = cfg.n

\* C2: findMap returns the awaited callback result of the first element whose
\* result is not None, undefined when there is none; f is invoked once for
\* each element up to and including the first match, and no element after
\* the match is pulled from the source.
C2_FindMapFirstMatch ==
  cfg.shape = "findMap" =>
    LET s == cfg.items
        last == IF Matches(s) = {} THEN Len(s) ELSE FirstMatch(s)
    IN /\ IsPrefix(nodes[2].calls, SubSeq(s, 1, last))
       /\ Delivered(1, 2) = Len(nodes[2].calls)
       /\ Finished(2) =>
            /\ nodes[2].calls = SubSeq(s, 1, last)
            /\ nodes[2].ret = IF Matches(s) = {} THEN Undefined ELSE cfg.f[s[last]]
            /\ nodes[2].late = <<>>

C2_Witness ==
  /\ cfg.shape = "findMap" /\ cfg.async
  /\ Finished(2) /\ nodes[2].ret \in Vals
  /\ Len(nodes[2].calls) = 2
  /\ Len(cfg.items) = 3
  /\ cfg.kind = "gen" /\ nodes[2].extra = 1

\* C3: collect(take(s, n)) is the first min(n, length(s)) elements of s in
\* order when n >= 1, and empty when n <= 0.
C3_TakePrefix ==
  cfg.shape = "takeDrop" =>
    /\ IsPrefix(nodes[3].result, cfg.items)
    /\ Finished(3) =>
         nodes[3].result =
           IF cfg.n >= 1 THEN SubSeq(cfg.items, 1, Min(cfg.n, Len(cfg.items))) ELSE <<>>

C3_Witness ==
  /\ cfg.shape = "takeDrop" /\ Finished(3)
  /\ 1 <= cfg.n /\ cfg.n < Len(cfg.items)
  /\ Len(nodes[3].result) = cfg.n

\* C4: for count >= 1, collect(drop(s, count)) is the elements of s at
\* zero-based positions >= count, in order; empty when length(s) <= count.
C4_DropSuffix ==
  (cfg.shape = "takeDrop" /\ cfg.n >= 1 /\ Finished(6)) =>
    /\ nodes[6].result = SubSeq(cfg.items, cfg.n + 1, Len(cfg.items))
    /\ Len(cfg.items) <= cfg.n => nodes[6].result = <<>>

C4_Witness ==
  /\ cfg.shape = "takeDrop" /\ Finished(6)
  /\ 1 <= cfg.n /\ cfg.n < Len(cfg.items)
  /\ Len(nodes[6].result) = Len(cfg.items) - cfg.n

\* C5: for count <= 0, collect(drop(s, count)) holds each element of s exactly
\* once, in order, whether s is a one-shot sequence or a re-iterable
\* collection given to the free function.
C5_DropNonPositiveUnchanged ==
  (cfg.shape = "takeDrop" /\ cfg.n <= 0 /\ Finished(6)) =>
    nodes[6].result = cfg.items

\* C6: for n >= 0, collect(take(s, n)) followed by collect(drop(s, n)), each
\* on its own traversal of s, is collect(s).
C6_TakeDropComplement ==
  (cfg.shape = "takeDrop" /\ cfg.n >= 0 /\ Finished(3) /\ Finished(6)) =>
    nodes[3].result \o nodes[6].result = cfg.items

\* C7: collect(filterMap(s, f)) is, in source order, the awaited f(x) of exactly
\* the elements whose result is not None; with f the identity and no None in
\* s it is collect(s).
C7_FilterMapKeeps ==
  cfg.shape = "filterMap" =>
    /\ IsPrefix(nodes[3].result, WithoutNone(Mapped(cfg.items)))
    /\ Finished(3) =>
         /\ nodes[3].result = WithoutNone(Mapped(cfg.items))
         /\ nodes[2].calls = cfg.items
         /\ (cfg.f = NoCallback /\ \A i \in 1 .. Len(cfg.items) : cfg.items[i] # None)
              => nodes[3].result = cfg.items

C7_Witness ==
  /\ cfg.shape = "filterMap" /\ cfg.async /\ Finished(3)
  /\ Len(cfg.items) = 3
  /\ Len(nodes[3].result) = 2
  /\ nodes[3].result # SubSeq(cfg.items, 1, 2)

\* C8: cycle(s, k) requests each element of its source at most once: with
\* finite k >= 1 a complete run invokes an upstream map's callback exactly
\* length(s) times, and after the first repetition nothing is requested
\* from the source any more.
C8_CycleReadsSourceOnce ==
  (cfg.shape = "mapCycle" /\ cfg.n >= 1) =>
    /\ IsPrefix(nodes[2].calls, cfg.items)
    /\ nodes[2].pulls <= Len(cfg.items) + 1
    /\ nodes[3].cycle >= 1 =>
         /\ nodes[2].pulls = Len(cfg.items) + 1
         /\ nodes[2].calls = cfg.items
         /\ nodes[3].cachedValues = Mapped(cfg.items)
    /\ Finished(4) => Len(nodes[2].calls) = Len(cfg.items)

C8_Witness ==
  /\ cfg.shape = "mapCycle" /\ cfg.n = 2 /\ Finished(4)
  /\ Len(cfg.items) = 3
  /\ Len(nodes[2].calls) = 3
  /\ Len(nodes[4].result) = 6

\* C9: for finite k >= 1, collect(cycle(s, k)) is s repeated k times, every
\* repetition in the order of s.
C9_CycleRepeats ==
  (cfg.shape = "mapCycle" /\ cfg.n >= 1) =>
    /\ IsPrefix(nodes[4].result, Repeated(Mapped(cfg.items), cfg.n))
    /\ Finished(4) =>
         /\ nodes[4].result = Repeated(Mapped(cfg.items), cfg.n)
         /\ Len(nodes[4].result) = cfg.n * Len(cfg.items)

C9_Witness ==
  /\ cfg.shape = "mapCycle" /\ cfg.n = 2 /\ Finished(4)
  /\ Len(cfg.items) = 2
  /\ nodes[4].result[1] # nodes[4].result[2]
  /\ nodes[4].result[3] = nodes[4].result[1]
  /\ nodes[4].result[4] = nodes[4].result[2]

\* C10: for k <= 0, cycle(s, k) reports end-of-sequence on its first pull and
\* never pulls from s: the upstream callback is invoked 0 times.
C10_CycleNonPositiveEmpty ==
  (cfg.shape = "mapCycle" /\ cfg.n <= 0) =>
    /\ nodes[2].pulls = 0 /\ nodes[2].calls = <<>>
    /\ nodes[1].pulls = 0 /\ nodes[1].pos = 0
    /\ nodes[4].result = <<>> /\ nodes[4].late = <<>>
    /\ nodes[3].pulls >= 1 => Finished(3)

C10_Witness ==
  /\ cfg.shape = "mapCycle" /\ cfg.n = -1 /\ Finished(4)
  /\ Len(cfg.items) = 2
  /\ nodes[3].pulls = 2 /\ nodes[4].extra = 1

\* C11: in source -> map(f) -> cycle() -> take(n) -> collect with
\* 1 <= n <= length(source), f is never invoked more than n times, and when
\* collect is done it holds the first n mapped values and f has been invoked
\* exactly n times, on the first n elements.
C11_CycleFirstPassOnDemand ==
  (cfg.shape = "mapCycleTake" /\ 1 <= cfg.n /\ cfg.n <= Len(cfg.items)) =>
    /\ Len(nodes[2].calls) <= cfg.n
    /\ Finished(5) =>
         /\ nodes[5].result = SubSeq(Mapped(cfg.items), 1, cfg.n)
         /\ nodes[2].calls = SubSeq(cfg.items, 1, cfg.n)

C11_Witness ==
  /\ cfg.shape = "mapCycleTake"
  /\ 2 <= cfg.n /\ cfg.n < Len(cfg.items)
  /\ Finished(5) /\ nodes[5].extra = 1
  /\ Len(nodes[2].calls) = cfg.n
  /\ nodes[3].cycle = 0

\* ------------------------------------------------------------ zip
\* the collect that drives the zip
Consumer(id) == CHOOSE c \in DOMAIN nodes : nodes[c].up = id /\ nodes[c].kind = "collect"

\* collect asks zip for its next value: zip runs from its start, or from its
\* last yield, to the await of the loop.
zipNext(id) ==
  /\ nodes[id].kind = "zip"
  /\ nodes[id].pc \in {"start", "yield"}
  /\ Running(Consumer(id))
  /\ nodes' = zipCalls([nodes EXCEPT ![id].pulls = @ + 1], id)
  /\ UNCHANGED cfg

\* the result of iterator.next() arrives
zipResolve1(id) ==
  /\ nodes[id].kind = "zip"
  /\ nodes[id].p1.state = "pending"
  /\ nodes' = [nodes EXCEPT ![id].p1.state = "resolved"]
  /\ UNCHANGED cfg

\* the result of anotherIterator.next() arrives
zipResolve2(id) ==
  /\ nodes[id].kind = "zip"
  /\ nodes[id].p2.state = "pending"
  /\ nodes' = [nodes EXCEPT ![id].p2.state = "resolved"]
  /\ UNCHANGED cfg

\* Promise.all is fulfilled: the two results are unwrapped and tested, zip
\* breaks or yields the pair, and collect pushes it or ends.
zipResume(id) ==
  /\ nodes[id].kind = "zip"
  /\ nodes[id].pc = "await"
  /\ nodes[id].p1.state = "resolved" /\ nodes[id].p2.state = "resolved"
  /\ LET c == Consumer(id)
         oneValue == unwrapResult(nodes[id].p1)
         anotherValue == unwrapResult(nodes[id].p2)
         ns1 == [nodes EXCEPT ![id].p1 = NoPull, ![id].p2 = NoPull]
     IN nodes' = IF nodes[id].p1.err \/ nodes[id].p2.err
                 THEN [ns1 EXCEPT ![id].pc = "done", ![c].pc = "done", ![c].err = TRUE]
                 ELSE IF oneValue = None \/ anotherValue = None
                 THEN [ns1 EXCEPT ![id].pc = "done", ![c].pc = "done"]
                 ELSE [ns1 EXCEPT ![id].pc = "yield", ![c].pc = "loop",
                                  ![c].result = Append(@, zipPair(oneValue, anotherValue))]
  /\ UNCHANGED cfg

InitZip ==
  \E k \in Kinds, k2 \in Kinds, s \in Sources, s2 \in Sources2 :
    Start(Zipped(Config("zip", k, s, 0, NoCallback, FALSE), k2, s2))

StepZip ==
  \/ \E id \in DOMAIN nodes : zipNext(id)
  \/ \E id \in DOMAIN nodes : zipResolve1(id)
  \/ \E id \in DOMAIN nodes : zipResolve2(id)
  \/ \E id \in DOMAIN nodes : zipResume(id)

SpecZip == InitZip /\ [][StepZip]_vars

\* ------------------------------------------------------------ sum, min, max
\* fold's `let accumulator = initialValue` and the head of its for-await
foldOpen(ns, id, initialValue) ==
  IF ns[id].pc = "start" THEN OpenUp([ns EXCEPT ![id].acc = initialValue], id) ELSE ns

sum(id) ==
  /\ nodes[id].kind = "sum"
  /\ Running(id)
  /\ nodes' = foldLoop(foldOpen(nodes, id, Num(0, 0)), id)
  /\ UNCHANGED cfg

min(id) ==
  /\ nodes[id].kind = "min"
  /\ Running(id)
  /\ nodes' = foldLoop(foldOpen(nodes, id, MAX_SAFE_INTEGER), id)
  /\ UNCHANGED cfg

max(id) ==
  /\ nodes[id].kind = "max"
  /\ Running(id)
  /\ nodes' = foldLoop(foldOpen(nodes, id, MIN_SAFE_INTEGER), id)
  /\ UNCHANGED cfg

\* elements within the safe range, and elements of any size
SafeElements == {Num(0, -1), Num(0, 2), Ten}
Elements == SafeElements \cup {Num(1, 2), Num(-1, -2)}

InitNumeric ==
  \/ \E k \in Kinds, s \in SeqsUpTo(SafeElements, MaxLen) :
       Start(Config("sum", k, s, 0, NoCallback, FALSE))
  \/ \E k \in Kinds, s \in SeqsUpTo(Elements, MaxLen) :
       Start(Config("min", k, s, 0, NoCallback, FALSE))
  \/ \E k \in Kinds, s \in SeqsUpTo(Elements, MaxLen) :
       Start(Config("max", k, s, 0, NoCallback, FALSE))

StepNumeric ==
  \/ \E id \in DOMAIN nodes : sum(id)
  \/ \E id \in DOMAIN nodes : min(id)
  \/ \E id \in DOMAIN nodes : max(id)

SpecNumeric == InitNumeric /\ [][StepNumeric]_vars

\* ------------------------------------------------------------ folding claims
NoneFree(s) == \A i \in 1 .. Len(s) : s[i] # None

RECURSIVE LeftFold(_, _)
LeftFold(accumulator, s) ==
  IF s = <<>> THEN accumulator ELSE LeftFold(Combine(accumulator, Head(s)), Tail(s))

Terminals == {"collect", "findMap", "filter", "fold", "reduce", "forEach"}

\* some callback of the chain has been invoked on the element it fails on
CallbackFailed ==
  \E id \in DOMAIN nodes : \E i \in 1 .. Len(nodes[id].calls) : nodes[id].calls[i] = cfg.bad

\* positions of s on which the predicate's outcome is true
Holds(s) == {i \in 1 .. Len(s) : cfg.f[s[i]] = TRUE}
FirstHolds(s) == CHOOSE i \in Holds(s) : \A j \in Holds(s) : i <= j

\* C14: no operator starts its callback on an element while the promise its
\* callback returned for an earlier element is still pending: at most one
\* callback promise of an operator is unsettled at any time.
C14_CallbacksOneAtATime ==
  \A id \in DOMAIN nodes : nodes[id].pending <= 1

\* C15: when forEach(s, f) has resolved, f has been invoked once on every
\* element of s, in order, and no promise returned by f is still pending.
C15_ForEachWaitsForCallbacks ==
  (cfg.shape = "forEach" /\ cfg.bad = Undefined /\ Finished(2)) =>
    /\ nodes[2].calls = cfg.items
    /\ nodes[2].pending = 0

\* C16: filter(s, p) returns the first element of s whose predicate outcome,
\* resolved when p returns a promise, is true, and undefined when the outcome
\* is false for every element.
C16_FilterReturnsFirstTrue ==
  (cfg.shape = "filter" /\ cfg.bad = Undefined /\ Finished(2)) =>
    nodes[2].ret = IF Holds(cfg.items) = {} THEN Undefined
                   ELSE cfg.items[FirstHolds(cfg.items)]

\* C17: a terminal call that is done after a callback of its chain threw, or
\* returned a promise that rejects, has rejected.
C17_CallbackFailureRejects ==
  \A id \in DOMAIN nodes :
    (nodes[id].kind \in Terminals /\ Finished(id) /\ CallbackFailed) => nodes[id].err

Pairs(a, b) == [i \in 1 .. Min(Len(a), Len(b)) |-> <<a[i], b[i]>>]

\* C12: for sources a and b without the None marker, collect(zip(a, b)) is
\* the sequence of the pairs [a_i, b_i] for i up to min(length(a), length(b)),
\* whichever side is the shorter one.
C12_ZipPairsUpToShorter ==
  (cfg.shape = "zip" /\ NoneFree(cfg.items) /\ NoneFree(cfg.items2)) =>
    /\ IsPrefix(nodes[4].result, Pairs(cfg.items, cfg.items2))
    /\ Finished(4) => nodes[4].result = Pairs(cfg.items, cfg.items2)

C12_Witness ==
  /\ cfg.shape = "zip" /\ NoneFree(cfg.items) /\ NoneFree(cfg.items2)
  /\ Len(cfg.items) = 3 /\ Len(cfg.items2) = 2
  /\ Finished(4) /\ Len(nodes[4].result) = 2

\* the second source is the longer one
C12_WitnessSecondLonger ==
  /\ cfg.shape = "zip" /\ NoneFree(cfg.items) /\ NoneFree(cfg.items2)
  /\ Len(cfg.items) = 2 /\ Len(cfg.items2) = 3
  /\ Finished(4) /\ Len(nodes[4].result) = 2

\* C13: the two pulls of a step of zip are started together, before either
\* result has arrived, and the pulls of the next step are started only when
\* both results of this step have arrived and its pair has been yielded: each
\* source has been pulled once per yielded pair, and once more while a step is
\* under way or after the step that ended the zip.
C13_ZipPullsInLockstep ==
  cfg.shape = "zip" =>
    /\ (nodes[3].p1.state = "none") = (nodes[3].p2.state = "none")
    /\ nodes[1].pulls = nodes[2].pulls
    /\ nodes[1].pulls = Len(nodes[4].result)
                          + IF nodes[3].pc \in {"await", "done"} THEN 1 ELSE 0
    /\ nodes[3].pc = "await" <=> nodes[3].p1.state # "none"

C13_Witness ==
  /\ cfg.shape = "zip"
  /\ Len(nodes[4].result) = 1
  /\ nodes[3].p1.state = "pending" /\ nodes[3].p2.state = "resolved"
  /\ nodes[1].pulls = 2 /\ nodes[2].pulls = 2

\* ------------------------------------------------------------ numeric claims
NonNumeric(s) == {i \in 1 .. Len(s) : ~s[i].num}
FirstNonNumeric(s) == CHOOSE i \in NonNumeric(s) : \A j \in NonNumeric(s) : i <= j

\* an element of s that no element of s is smaller (larger) than
Smallest(s) == CHOOSE x \in {s[i] : i \in 1 .. Len(s)} :
                 \A i \in 1 .. Len(s) : ~Less(s[i], x)
Largest(s) == CHOOSE x \in {s[i] : i \in 1 .. Len(s)} :
                \A i \in 1 .. Len(s) : ~Less(x, s[i])

\* C18: when the source of sum, min or max holds an element that is not a
\* number, the source is never asked for more than the elements up to the
\* first such element, and the call ends rejected, having accumulated exactly
\* the numbers before that element.
C18_NumericRejectsAtFirstNonNumber ==
  (cfg.shape \in {"sum", "min", "max"} /\ NonNumeric(cfg.items) # {}) =>
    /\ nodes[1].pulls <= FirstNonNumeric(cfg.items)
    /\ Finished(2) =>
         /\ nodes[2].err
         /\ nodes[1].pulls = FirstNonNumeric(cfg.items)
         /\ nodes[2].calls = SubSeq(cfg.items, 1, FirstNonNumeric(cfg.items) - 1)

C18_Witness ==
  /\ cfg.shape = "sum"
  /\ cfg.items = <<Num(0, 2), Ten, Num(0, -1)>>
  /\ Finished(2) /\ nodes[2].err
  /\ nodes[1].pulls = 2

\* C19: for a non-empty source of numbers, min resolves to the smallest
\* element and max to the largest element, whatever their size.
C19_MinMaxOfElements ==
  (cfg.shape \in {"min", "max"} /\ cfg.items # <<>> /\ NonNumeric(cfg.items) = {}
     /\ Finished(2)) =>
    /\ ~nodes[2].err
    /\ nodes[2].ret = IF cfg.shape = "min" THEN Smallest(cfg.items)
                      ELSE Largest(cfg.items)

C21_WitnessEmpty ==
  /\ cfg.shape = "fold" /\ cfg.items = <<>> /\ cfg.seed = 1
  /\ Finished(2) /\ nodes[2].ret = 1 /\ nodes[2].calls = <<>>

\* ------------------------------------------------------------ handles
\* The objects of a fluent chain: nodes is the heap, in order of creation.
\* tag: the object has the own property IterupID; target: what a Proxy wraps
\* (0 for an object that is no proxy); by: the call that made the object;
\* prop: the method name of that call.

\* the keys of `Extensions` and of `NumericExtensions`
Extensions ==
  {"filterMap", "findMap", "collect", "toArray", "enumerate", "drop", "take", "flatMap",
   "map", "filter", "cycle", "zip", "fold", "reduce", "forEach"}
NumericExtensions == {"sum", "min", "max"}

\* the operators that are async generator functions
LazyOps == {"enumerate", "filterMap", "map", "flatMap", "drop", "take", "cycle", "zip"}

\* objects with neither Symbol.iterator nor Symbol.asyncIterator, objects
\* with Symbol.iterator, and values that are no iterator at all
Descriptors == {"rangeArg"}
Iterables == {"array"}
NotObjects == {"undefined", "promise"}

IsProxy(ns, id) == ns[id].target # 0

\* the object that an operation without a trap on the proxy ends up on
RECURSIVE Root(_, _)
Root(ns, id) == IF IsProxy(ns, id) THEN Root(ns, ns[id].target) ELSE id

\* how many get traps an access on the object runs through
RECURSIVE Layers(_, _)
Layers(ns, id) == IF IsProxy(ns, id) THEN 1 + Layers(ns, ns[id].target) ELSE 0

\* `IterupID in value`: a proxy without a has trap asks its target
isIterup(ns, id) == ns[Root(ns, id)].tag

\* `Symbol.asyncIterator in value && typeof value[Symbol.asyncIterator] === "function"`
isAsyncIterator(ns, id) ==
  ns[Root(ns, id)].kind \notin Descriptors \cup Iterables \cup NotObjects

\* `Symbol.iterator in value && typeof value[Symbol.iterator] === "function"`
isIterable(ns, id) == ns[Root(ns, id)].kind \in Iterables

\* `new Proxy(iterator, {get})` and `Object.defineProperty(proxy, IterupID, {})`:
\* the handler has no defineProperty trap, the property is defined on the
\* target, and on the target's target when that is a proxy too.
fromAsyncIterator(ns, iterator) ==
  Append([ns EXCEPT ![Root(ns, iterator)].tag = TRUE],
         [Node("proxy", 0, 0, <<>>) EXCEPT !.target = iterator, !.by = "iterup"])

\* fromIterable in the heap: `fromAsyncIterator(iterator())`, the generator
\* object of the inner async function* over the collection
fromIterableObject(ns, array) ==
  LET ns1 == Append(ns, [Node("gen", array, 0, ns[array].items) EXCEPT !.by = "fromIterable"])
  IN fromAsyncIterator(ns1, Len(ns1))

\* iterup(collection)
iterup(ns, collection) ==
  IF isAsyncIterator(ns, collection) THEN fromAsyncIterator(ns, collection)
  ELSE IF isIterable(ns, collection) THEN fromIterableObject(ns, collection)
  ELSE Append(ns, [Node("range", collection, 0, <<>>) EXCEPT !.by = "iterup"])

\* what `extension.apply(null, [target, ...args])` returns: the generator
\* object of a lazy operator, or the promise of a terminal one
Extension(ns, prop, target) ==
  [Node(IF prop \in LazyOps THEN prop ELSE "promise", target, 0, <<>>)
     EXCEPT !.by = "method", !.prop = prop]

\* `object[prop](...args)`: through the get trap of a proxy, whose first
\* branch is `Extensions[prop]`, and else as a property of the target; a
\* generator object has none of the operators as a method.
RECURSIVE Invoke(_, _, _)
Invoke(ns, object, prop) ==
  IF IsProxy(ns, object)
  THEN IF prop \in Extensions THEN Extension(ns, prop, ns[object].target)
       ELSE Invoke(ns, ns[object].target, prop)
  ELSE [Node("undefined", 0, 0, <<>>) EXCEPT !.by = "method", !.prop = prop]

\* the object the chain goes on from
Latest == Len(nodes)

iterupCall ==
  /\ Len(nodes) + 2 <= MaxObjects
  /\ nodes[Latest].kind \notin NotObjects
  /\ nodes' = iterup(nodes, Latest)
  /\ UNCHANGED cfg

methodCall(prop) ==
  /\ Len(nodes) + 1 <= MaxObjects
  /\ nodes[Latest].kind \notin NotObjects \cup Descriptors \cup Iterables
  /\ nodes' = Append(nodes, Invoke(nodes, Latest, prop))
  /\ UNCHANGED cfg

Inputs == Iterables \cup Descriptors \cup {"gen"}

InitHandle ==
  \E k \in Inputs, s \in SeqsUpTo(Vals, 1) :
    /\ cfg = Config("handle", k, s, 0, NoCallback, FALSE)
    /\ nodes = << Source(k, s) >>

StepHandle ==
  \/ iterupCall
  \/ \E prop \in Extensions \cup NumericExtensions : methodCall(prop)

SpecHandle == InitHandle /\ [][StepHandle]_vars

\* ------------------------------------------------------------ handle claims
\* the objects a fluent chain hands to its caller as sequences
Sequences == {id \in DOMAIN nodes :
                \/ nodes[id].by = "iterup"
                \/ nodes[id].by = "method" /\ nodes[id].prop \in LazyOps}

\* C22: every sequence that iterup hands back, and every result of a lazy
\* operator method called on a handle, satisfies isIterup.
C22_EverySequenceIsHandle ==
  \A id \in Sequences :
    (nodes[id].by = "method" => isIterup(nodes, id - 1)) => isIterup(nodes, id)

\* C23: for every entry op of the operator library, calling h.op on a handle
\* h calls the operator op with the sequence h wraps as its first argument.
C23_MethodIsFreeFunction ==
  \A id \in DOMAIN nodes :
    (nodes[id].by = "method" /\ IsProxy(nodes, id - 1)) =>
      /\ nodes[id].kind # "undefined"
      /\ nodes[id].up = nodes[id - 1].target

\* C24: iterup(s) leaves an async sequence s that it was given without the
\* identity tag, while the handle it returns satisfies isIterup.
C24_TagOnlyOnHandle ==
  \A id \in DOMAIN nodes :
    (nodes[id].kind = "proxy" /\ nodes[nodes[id].target].by = "input") =>
      /\ isIterup(nodes, id)
      /\ ~isIterup(nodes, nodes[id].target)

\* C25: no handle is a proxy of a proxy: an access on any object runs through
\* at most one get trap.
C25_NoDoubleWrap ==
  \A id \in DOMAIN nodes : Layers(nodes, id) <= 1


\* ------------------------------------------------------------ construction
\* Calling an async generator function makes a suspended generator: none of
\* its body has run when the call returns.
Lazy_eager(ns, node) == Next(Append(ns, node), Len(ns) + 1).ns
Lazy(ns, node) == Append(ns, node)

\* the argument of range: an object that may lack `from`, `to` or both
RangeArgument(keys, from, to) == [k \in keys |-> IF k = "from" THEN from ELSE to]

\* range's parameter with its defaults
RangeOf(arg) ==
  [Node("range", 1, 0, <<>>) EXCEPT
     !.from = IF "from" \in DOMAIN arg THEN arg["from"] ELSE 0,
     !.to = IF "to" \in DOMAIN arg THEN arg["to"] ELSE DefaultTo]

\* a source: an array literal, or iterup(array)
Sourced(ns, kind, items) ==
  IF kind = "array" THEN Append(ns, Source("array", items))
  ELSE Lazy(ns, Source("gen", items))

\* Where the lazy operator of the chain stands, and the chain itself:
\* source, operator, collect; zip has a second source before it, a range
\* without `to` has a take(n) after it, "handle" is iterup(array) alone, and
\* enumerate also stands behind a filterMap(f) and behind a drop(n).
OpAt(c) == IF c.op \in {"zip", "filterMap.enumerate", "drop.enumerate"} THEN 3 ELSE 2

LazyChain(c) ==
  LET consumed(ns) == Append(ns, Node("collect", Len(ns), 0, <<>>)) IN
  CASE c.op = "zip" ->
         consumed(Lazy(Sourced(Sourced(<<>>, c.kind, c.items), c.kind2, c.items2),
                       [Node("zip", 1, 0, <<>>) EXCEPT !.up2 = 2]))
    [] c.op = "range" ->
         LET made == Lazy(<<Node("rangeArg", 0, 0, <<>>)>>, RangeOf(c.arg)) IN
         consumed(IF "to" \in DOMAIN c.arg THEN made
                  ELSE Lazy(made, Node("take", 2, c.n, <<>>)))
    [] c.op = "filterMap.enumerate" ->
         consumed(Lazy(Lazy(Sourced(<<>>, c.kind, c.items), Node("filterMap", 1, 0, <<>>)),
                       Node("enumerate", 2, 0, <<>>)))
    [] c.op = "drop.enumerate" ->
         consumed(Lazy(Lazy(Sourced(<<>>, c.kind, c.items), Node("drop", 1, c.n, <<>>)),
                       Node("enumerate", 2, 0, <<>>)))
    [] c.op = "handle" ->
         consumed(Lazy(<<Source("array", c.items)>>, Source("gen", c.items)))
    [] OTHER ->
         consumed(Lazy(Sourced(<<>>, c.kind, c.items), Node(c.op, 1, c.n, <<>>)))

\* the chain is built: the operators are called, nothing is pulled yet
construct ==
  /\ nodes = <<>>
  /\ nodes' = LazyChain(cfg)
  /\ UNCHANGED cfg

Operated(c, op) == [c EXCEPT !.op = op]
Ranged(c, arg) == [c EXCEPT !.op = "range", !.arg = arg]

\* the ends given to range
RangeEnds == (-1) .. MaxLen

Called(c) == cfg = c /\ nodes = <<>>

InitLazy ==
  \/ \E k \in Kinds, s \in Sources, fn \in Transforms, a \in BOOLEAN,
        op \in {"map", "flatMap"} :
       Called(Operated(Config("lazy", k, s, 0, fn, a), op))
  \/ \E k \in Kinds, s \in Sources, fn \in Callbacks, a \in BOOLEAN :
       Called(Operated(Config("lazy", k, s, 0, fn, a), "filterMap"))
  \/ \E k \in Kinds, s \in Sources, n \in Counts, op \in {"take", "drop"} :
       Called(Operated(Config("lazy", k, s, n, NoCallback, FALSE), op))
  \/ \E k \in Kinds, s \in Sources, n \in Cycles :
       Called(Operated(Config("lazy", k, s, n, NoCallback, FALSE), "cycle"))
  \/ \E k \in Kinds, s \in Sources, op \in {"enumerate", "handle"} :
       Called(Operated(Config("lazy", k, s, 0, NoCallback, FALSE), op))
  \/ \E k \in Kinds, s \in Sources, k2 \in Kinds, s2 \in Sources2 :
       Called(Operated(Zipped(Config("lazy", k, s, 0, NoCallback, FALSE), k2, s2), "zip"))
  \/ \E k \in Kinds, s \in Sources, fn \in Transforms, a \in BOOLEAN :
       Called(Operated(Config("lazy", k, s, 0, fn, a), "filterMap.enumerate"))
  \/ \E k \in Kinds, s \in Sources, n \in 1 .. MaxCount :
       Called(Operated(Config("lazy", k, s, n, NoCallback, FALSE), "drop.enumerate"))
  \/ \E keys \in SUBSET {"from", "to"}, from \in RangeEnds, to \in RangeEnds, n \in Counts :
       Called(Ranged(Config("lazy", "array", <<>>, n, NoCallback, FALSE),
                     RangeArgument(keys, from, to)))

StepLazy ==
  \/ construct
  \/ \E id \in DOMAIN nodes : collect(id)
  \/ \E id \in DOMAIN nodes : PullPastEnd(id)

SpecLazy == InitLazy /\ [][StepLazy]_vars

\* ------------------------------------------------------------ range claim
\* the integers a, a + 1, ..., b (none when b < a)
Interval(a, b) == [i \in 1 .. (b - a + 1) |-> a + i - 1]

C26_WitnessEmpty ==
  /\ cfg.shape = "lazy" /\ cfg.op = "range" /\ nodes # <<>>
  /\ cfg.arg = RangeArgument({"from", "to"}, 2, 1)
  /\ Finished(Latest)
  /\ nodes[Latest].result = <<>>

\* range({to: 2}) starts at 0
C26_WitnessDefaultFrom ==
  /\ cfg.shape = "lazy" /\ cfg.op = "range" /\ nodes # <<>>
  /\ cfg.arg = RangeArgument({"to"}, 0, 2)
  /\ Finished(Latest)
  /\ nodes[Latest].result = <<0, 1, 2>>


\* ------------------------------------------------------------ end of sequence
\* C27: in source -> operator -> collect, for each lazy operator and for
\* iterup(array) itself: once collect has been told that the sequence is
\* over, further pulls on that sequence give no value.
C27_EndIsFinal ==
  (cfg.shape = "lazy" /\ nodes # <<>>) => nodes[Latest].late = <<>>

\* a twice repeated, non-empty source has been read to its end and then
\* pulled again
C27_Witness ==
  /\ cfg.shape = "lazy" /\ cfg.op = "cycle" /\ nodes # <<>>
  /\ Len(nodes[Latest].result) >= 2
  /\ nodes[Latest].extra >= 1
  /\ nodes[Latest].late = <<>>

\* the same for a zip whose first source is the longer one
C27_WitnessZip ==
  /\ cfg.shape = "lazy" /\ cfg.op = "zip" /\ nodes # <<>>
  /\ Len(nodes[Latest].result) >= 1
  /\ Len(cfg.items) > Len(nodes[Latest].result)
  /\ nodes[Latest].extra >= 1
  /\ nodes[Latest].late = <<>>


\* ------------------------------------------------------------ laziness
\* nothing has been asked of the node id, and it has called no callback
Untouched(id) ==
  /\ nodes[id].pulls = 0
  /\ nodes[id].pc = "start"
  /\ nodes[id].pos = 0
  /\ nodes[id].cur = 0
  /\ nodes[id].calls = <<>>

\* C28: in a chain that has been built (the sources wrapped, the operator
\* called), as long as the consumer has not asked the result for an element
\* no source and no operator has been pulled and no callback has been
\* invoked.
C28_ConstructionPullsNothing ==
  (cfg.shape = "lazy" /\ nodes # <<>> /\ nodes[Latest].pc = "start") =>
    \A id \in 1 .. OpAt(cfg) : Untouched(id)

\* map over a wrapped, non-empty source has been built and not yet pulled
C28_Witness ==
  /\ cfg.shape = "lazy" /\ cfg.op = "map" /\ cfg.kind = "gen" /\ cfg.items # <<>>
  /\ nodes # <<>>
  /\ nodes[Latest].pc = "start"
  /\ Untouched(1) /\ Untouched(2)

\* the first pull on zip has pulled both its sources
C28_WitnessFirstPull ==
  /\ cfg.shape = "lazy" /\ cfg.op = "zip" /\ nodes # <<>>
  /\ nodes[3].pulls = 1
  /\ nodes[1].pulls = 1 /\ nodes[2].pulls = 1


\* ------------------------------------------------------------ pulls in flight
\* the sequences zip reads
ZipSides == {id \in DOMAIN nodes : \E z \in DOMAIN nodes :
               nodes[z].kind = "zip" /\ id \in {nodes[z].up, nodes[z].up2}}

\* C29: in source -> operator -> collect, where collect awaits each element
\* before it asks for the next, no sequence other than the two that zip reads
\* ever has more than one unresolved pull.
C29_OnePullInFlight ==
  (cfg.shape = "lazy" /\ nodes # <<>>) =>
    \A id \in DOMAIN nodes \ ZipSides : nodes[id].peak <= 1 /\ nodes[id].inflight <= 1

\* a source of two or more elements has been read to its end through map,
\* one pull at a time
C29_Witness ==
  /\ cfg.shape = "lazy" /\ cfg.op = "map" /\ cfg.kind = "gen" /\ nodes # <<>>
  /\ Finished(Latest)
  /\ nodes[1].pulls >= 3
  /\ nodes[1].peak = 1 /\ nodes[2].peak = 1
  /\ nodes[1].inflight = 0 /\ nodes[2].inflight = 0

\* the same through a source repeated twice by cycle
C29_WitnessCycle ==
  /\ cfg.shape = "lazy" /\ cfg.op = "cycle" /\ cfg.n = 2 /\ nodes # <<>>
  /\ Finished(Latest)
  /\ Len(nodes[Latest].result) >= 4
  /\ nodes[1].peak = 1 /\ nodes[2].peak = 1


\* ------------------------------------------------------------ map
\* C30: in source -> map(f) -> collect with f pure, sync or async: collect
\* only ever holds the settled f of a prefix of the source, f has been called
\* on exactly the elements read so far, in order, and once collect is done it
\* is not rejected and holds the settled f of every element of the source, in
\* the order of the source.
C30_MapElementwise ==
  (cfg.shape = "lazy" /\ cfg.op = "map" /\ nodes # <<>>) =>
    /\ ~nodes[Latest].err
    /\ IsPrefix(nodes[Latest].result, Mapped(cfg.items))
    /\ IsPrefix(nodes[2].calls, cfg.items)
    /\ Finished(Latest) =>
         /\ Len(nodes[Latest].result) = Len(cfg.items)
         /\ \A i \in 1 .. Len(cfg.items) : nodes[Latest].result[i] = cfg.f[cfg.items[i]]

\* an async f that changes both elements of a two-element source
C30_Witness ==
  /\ cfg.shape = "lazy" /\ cfg.op = "map" /\ nodes # <<>>
  /\ cfg.async
  /\ Len(cfg.items) = 2
  /\ cfg.items[1] # cfg.items[2]
  /\ \A i \in 1 .. 2 : cfg.f[cfg.items[i]] # cfg.items[i]
  /\ Finished(Latest)
  /\ nodes[Latest].result = Mapped(cfg.items)

\* the same with a sync f
C30_WitnessSync ==
  /\ cfg.shape = "lazy" /\ cfg.op = "map" /\ nodes # <<>>
  /\ ~cfg.async
  /\ Len(cfg.items) = MaxLen
  /\ \E i \in 1 .. MaxLen : cfg.f[cfg.items[i]] # cfg.items[i]
  /\ Finished(Latest)
  /\ nodes[Latest].result = Mapped(cfg.items)


\* ------------------------------------------------------------ flatMap
\* the nested collections of the elements of s, one after the other
RECURSIVE Flattened(_)
Flattened(s) ==
  IF s = <<>> THEN <<>>
  ELSE Flattened(SubSeq(s, 1, Len(s) - 1)) \o Nested(s[Len(s)], cfg.f[s[Len(s)]])

\* s without its last element
Front(s) == IF s = <<>> THEN <<>> ELSE SubSeq(s, 1, Len(s) - 1)

\* C31: in source -> flatMap(f) -> collect with f pure, sync or async: f is
\* called on the source elements in order; collect only ever holds a prefix
\* of the nested collections of the elements f was called on, and holds all
\* of those of every element but the last one f was called on; an array
\* among the nested values is handed on as one element; once collect is done
\* it is not rejected and holds the nested collections of all the source
\* elements, one after the other.
C31_FlatMapConcatenates ==
  (cfg.shape = "lazy" /\ cfg.op = "flatMap" /\ nodes # <<>>) =>
    /\ ~nodes[Latest].err
    /\ IsPrefix(nodes[2].calls, cfg.items)
    /\ IsPrefix(nodes[Latest].result, Flattened(nodes[2].calls))
    /\ Len(nodes[Latest].result) >= Len(Flattened(Front(nodes[2].calls)))
    /\ Finished(Latest) => nodes[Latest].result = Flattened(cfg.items)

\* [1, 2] with f(1) = [1, 1] and f(2) = [2, [2]] is done with [1, 1, 2, [2]]
C31_Witness ==
  /\ cfg.shape = "lazy" /\ cfg.op = "flatMap" /\ nodes # <<>>
  /\ cfg.items = <<1, 2>> /\ cfg.f[1] = 1 /\ cfg.f[2] = 2
  /\ Finished(Latest)
  /\ nodes[Latest].result = <<1, 1, 2, Box(2)>>

\* an async f; the first element's nested values are in, f was not yet
\* called on the second
C31_WitnessBetween ==
  /\ cfg.shape = "lazy" /\ cfg.op = "flatMap" /\ nodes # <<>>
  /\ cfg.async
  /\ Len(cfg.items) >= 2
  /\ Len(nodes[2].calls) = 1
  /\ Len(nodes[Latest].result) = 2


\* ------------------------------------------------------------ enumerate
\* each element of s with its position, counted from 0
Indexed(s) == [i \in 1 .. Len(s) |-> <<s[i], i - 1>>]

\* what enumerate receives: the source, the source through filterMap(f), or
\* the source without its first n elements
Received ==
  CASE cfg.op = "enumerate" -> cfg.items
    [] cfg.op = "filterMap.enumerate" -> WithoutNone(Mapped(cfg.items))
    [] cfg.op = "drop.enumerate" -> SubSeq(cfg.items, cfg.n + 1, Len(cfg.items))

\* C32: in source -> enumerate -> collect, source -> filterMap(f) ->
\* enumerate -> collect and source -> drop(n) -> enumerate -> collect with
\* n >= 1: collect only ever holds a prefix of the elements enumerate
\* receives, each paired with its position among them counted from 0, and
\* once done it is not rejected and holds all of them.
C32_EnumerateCountsFromZero ==
  (cfg.shape = "lazy" /\ nodes # <<>>
     /\ cfg.op \in {"enumerate", "filterMap.enumerate", "drop.enumerate"}) =>
    /\ ~nodes[Latest].err
    /\ IsPrefix(nodes[Latest].result, Indexed(Received))
    /\ Finished(Latest) => nodes[Latest].result = Indexed(Received)

\* a three-element source is done with its elements paired with 0, 1, 2
C32_Witness ==
  /\ cfg.shape = "lazy" /\ cfg.op = "enumerate" /\ nodes # <<>>
  /\ Len(cfg.items) = 3
  /\ Finished(Latest)
  /\ nodes[Latest].result =
       << <<cfg.items[1], 0>>, <<cfg.items[2], 1>>, <<cfg.items[3], 2>> >>

\* filterMap skipped the first element: the second one has index 0
C32_WitnessAfterSkip ==
  /\ cfg.shape = "lazy" /\ cfg.op = "filterMap.enumerate" /\ nodes # <<>>
  /\ Len(cfg.items) >= 2
  /\ cfg.f[cfg.items[1]] = None /\ cfg.f[cfg.items[2]] # None
  /\ Finished(Latest)
  /\ nodes[Latest].result # <<>>
  /\ nodes[Latest].result[1] = <<cfg.f[cfg.items[2]], 0>>

\* drop(1) dropped the first element: the second one has index 0
C32_WitnessAfterDrop ==
  /\ cfg.shape = "lazy" /\ cfg.op = "drop.enumerate" /\ nodes # <<>>
  /\ cfg.n = 1 /\ Len(cfg.items) = 3
  /\ Finished(Latest)
  /\ nodes[Latest].result = << <<cfg.items[2], 0>>, <<cfg.items[3], 1>> >>


\* ------------------------------------------------------------ range, upper end
\* C33: in range({from, to}) -> collect, once collect is done it holds the
\* integers from `from` up to, but not including, `to`.
C33_RangeUpperExclusive ==
  (cfg.shape = "lazy" /\ cfg.op = "range" /\ nodes # <<>>
     /\ DOMAIN cfg.arg = {"from", "to"} /\ Finished(Latest)) =>
    nodes[Latest].result = Interval(cfg.arg["from"], cfg.arg["to"] - 1)


\* ------------------------------------------------------------ unbounded cycle
\* One more trip round `for (let cycle = 0; cycle < cycles; cycle++)` with
\* cycles = Infinity and nothing cached: the inner for-await over the empty
\* cachedValues ends at once, nothing is yielded, and the test holds again.
\* The counter stops growing at MaxSpin as a number does at 2^53.
spin(id) ==
  /\ nodes[id].kind = "cycle"
  /\ nodes[id].pc = "spin"
  /\ nodes' = [nodes EXCEPT ![id].cycle = IF @ < MaxSpin THEN @ + 1 ELSE @]
  /\ UNCHANGED cfg

InitCycle ==
  \E k \in Kinds, s \in Sources, n \in 0 .. MaxCount :
    Start(Config("cycleTake", k, s, n, NoCallback, FALSE))

StepCycle ==
  \/ \E id \in DOMAIN nodes : collect(id)
  \/ \E id \in DOMAIN nodes : spin(id)

SpecCycle == InitCycle /\ [][StepCycle]_vars

\* C34: in source -> cycle() -> take(n) -> collect with n >= 0 and a finite
\* source, no pull is ever caught in a loop that neither yields nor returns:
\* every pull on cycle's result, on take's result and by collect completes.
C34_CycleTakeResolves ==
  \A id \in DOMAIN nodes : nodes[id].pc # "spin"


\* ------------------------------------------------------------ zip, its pulls
\* how many elements the zip at id has drawn from its side
Drawn(id, side) ==
  LET up == IF side = 1 THEN nodes[id].up ELSE nodes[id].up2 IN
  IF nodes[up].kind = "array"
  THEN IF side = 1 THEN nodes[id].cur ELSE nodes[id].cur2
  ELSE nodes[up].pos

\* C35: in zip(a, b) -> collect, also when the zip is pulled again after its
\* end: each source is pulled at most min(length(a), length(b)) + 1 times,
\* once per pull on the zip until the zip has ended and never after; at most
\* one element more than the pairs yielded has been drawn from either side.
C35_ZipPullsAtMostShorterPlusOne ==
  (cfg.shape = "lazy" /\ cfg.op = "zip" /\ nodes # <<>>) =>
    \A side \in {1, 2} :
      /\ nodes[side].pulls <= Min(Len(cfg.items), Len(cfg.items2)) + 1
      /\ nodes[side].pulls <= nodes[3].pulls
      /\ nodes[3].pc = "done" => nodes[side].pulls = Len(nodes[Latest].result) + 1
      /\ Drawn(3, side) <= Len(nodes[Latest].result) + 1

\* the second source ended first: one element of the first was drawn and
\* dropped, and a later pull on the zip pulled neither source
C35_Witness ==
  /\ cfg.shape = "lazy" /\ cfg.op = "zip" /\ nodes # <<>>
  /\ Len(cfg.items) = 3 /\ Len(cfg.items2) = 1
  /\ Len(nodes[Latest].result) = 1
  /\ nodes[Latest].extra >= 1
  /\ nodes[3].pulls >= 3
  /\ nodes[1].pulls = 2 /\ nodes[2].pulls = 2
  /\ Drawn(3, 1) = 2 /\ Drawn(3, 2) = 1


\* ------------------------------------------------------------ one handle, two readers
\* h = iterup(array) is node 2, the generator it wraps node 1. Two readers
\* are built from h one after the other, each either a caller of h.next()
\* or a method of h (with collect behind it when the method is lazy); their
\* pulls interleave freely.

\* `h.prop(n)`: the extension called on the target of h
Method(ns, prop, n) == [Invoke(ns, 2, prop) EXCEPT !.kind = prop, !.count = n]

Reading(ns, prop, n) ==
  CASE prop = "next" -> Append(ns, Node("next", 2, 0, <<>>))
    [] prop \in {"findMap", "filter"} -> Append(ns, Method(ns, prop, n))
    [] OTHER -> Append(Append(ns, Method(ns, prop, n)), Node("collect", Len(ns) + 1, 0, <<>>))

SharedChain(c) ==
  Reading(Reading(fromAsyncIterator(<<Source("gen", c.items)>>, 1), c.op, c.n), c.op2, c.n2)

Shared(c, op, op2, n2) == [c EXCEPT !.op = op, !.op2 = op2, !.n2 = n2]

\* a caller of h.next(), who may go on calling after the end
nextCall(id) ==
  /\ nodes[id].kind = "next"
  /\ nodes[id].pc # "done" \/ nodes[id].extra < MaxExtra
  /\ LET r == PullUp(nodes, id)
         after == nodes[id].pc = "done"
     IN nodes' = IF r.done
                 THEN [r.ns EXCEPT ![id].pc = "done",
                                   ![id].extra = IF after THEN @ + 1 ELSE @]
                 ELSE IF after
                 THEN [r.ns EXCEPT ![id].extra = @ + 1, ![id].late = Append(@, r.value)]
                 ELSE [r.ns EXCEPT ![id].pc = "loop", ![id].result = Append(@, r.value)]
  /\ UNCHANGED cfg

\* what the shared source holds
SharedSources == SeqsUpTo(Vals, MaxLen)
SharedCounts == 0 .. MaxLen

InitShared ==
  \/ \E s \in SharedSources, fn \in Transforms :
       cfg = Shared(Config("shared", "gen", s, 0, fn, FALSE), "next", "map", 0)
       /\ nodes = SharedChain(cfg)
  \/ \E s \in SharedSources, op \in {"take", "drop"}, op2 \in {"take", "drop"},
        n \in SharedCounts, n2 \in SharedCounts :
       cfg = Shared(Config("shared", "gen", s, n, NoCallback, FALSE), op, op2, n2)
       /\ nodes = SharedChain(cfg)
  \/ \E s \in SharedSources, n \in 1 .. MaxLen, op2 \in {"next", "map"} :
       cfg = Shared(Config("shared", "gen", s, n, NoCallback, FALSE), "take", op2, 0)
       /\ nodes = SharedChain(cfg)
  \/ \E s \in SharedSources, fn \in Callbacks, op2 \in {"next", "map"} :
       cfg = Shared(Config("shared", "gen", s, 0, fn, FALSE), "findMap", op2, 0)
       /\ nodes = SharedChain(cfg)
  \/ \E s \in SharedSources, fn \in Predicates, op2 \in {"next", "map"} :
       cfg = Shared(Config("shared", "gen", s, 0, fn, FALSE), "filter", op2, 0)
       /\ nodes = SharedChain(cfg)

StepShared ==
  \/ \E id \in DOMAIN nodes : nextCall(id)
  \/ \E id \in DOMAIN nodes : collect(id)
  \/ \E id \in DOMAIN nodes : PullPastEnd(id)
  \/ \E id \in DOMAIN nodes : findMap(id)
  \/ \E id \in DOMAIN nodes : filter(id)

SpecShared == InitShared /\ [][StepShared]_vars


\* ------------------------------------------------------------ shared handle: delivery
\* s is a and b woven together, each in its own order
RECURSIVE IsMerge(_, _, _)
IsMerge(a, b, s) ==
  IF s = <<>> THEN a = <<>> /\ b = <<>>
  ELSE \/ a # <<>> /\ Head(a) = Head(s) /\ IsMerge(Tail(a), b, Tail(s))
       \/ b # <<>> /\ Head(b) = Head(s) /\ IsMerge(a, Tail(b), Tail(s))

\* the two that pull the shared source: a caller of h.next(), or the method
\* of h that was given the target
Pullers == {id \in DOMAIN nodes : nodes[id].kind # "proxy" /\ nodes[id].up \in {1, 2}}
FirstPuller == CHOOSE id \in Pullers : \A other \in Pullers : id <= other
SecondPuller == CHOOSE id \in Pullers : \A other \in Pullers : id >= other

\* C36: with a caller of h.next() and a method of h (map, take(n), findMap or
\* filter) reading the same handle in any interleaving: the elements the
\* source has handed out are exactly those the two have received, each once,
\* and each of the two has received its elements in source order; after the
\* end neither receives anything.
C36_DirectPullsShareTheSequence ==
  (cfg.shape = "shared" /\ "next" \in {cfg.op, cfg.op2}) =>
    /\ nodes[1].pos = Len(nodes[FirstPuller].got) + Len(nodes[SecondPuller].got)
    /\ IsMerge(nodes[FirstPuller].got, nodes[SecondPuller].got,
               SubSeq(cfg.items, 1, nodes[1].pos))
    /\ \A id \in DOMAIN nodes : nodes[id].late = <<>>
    /\ \A id \in DOMAIN nodes : nodes[id].kind = "next" => nodes[id].result = nodes[id].got

\* of [1, 2, 1] the caller of h.next() has got the first and the third
\* element and map the second, and both have seen the end
C36_Witness ==
  /\ cfg.shape = "shared" /\ cfg.op = "next" /\ cfg.op2 = "map"
  /\ cfg.items = <<1, 2, 1>>
  /\ nodes[3].result = <<1, 1>>
  /\ nodes[4].got = <<2>>
  /\ nodes[3].pc = "done" /\ Finished(Latest)
  /\ nodes[2].pulls >= 3


\* ------------------------------------------------------------ shared handle: counters
\* what the take or drop at id, called with n, has handed on of what it got
Kept(id, n) ==
  IF nodes[id].kind = "take" THEN nodes[id].got
  ELSE SubSeq(nodes[id].got, n + 1, Len(nodes[id].got))

\* C37: with two results of take or drop built from one handle (nodes 3 and
\* 5, read by the collects 4 and 6) and pulled in any interleaving: a take(n)
\* has handed on all it received and never more than n elements, a drop(n)
\* has handed on all it received but the first n, and what the two received
\* is a weaving of what the source handed out.
C37_CountersAreLocal ==
  (cfg.shape = "shared" /\ cfg.op \in {"take", "drop"} /\ cfg.op2 \in {"take", "drop"}) =>
    /\ nodes[4].result = Kept(3, cfg.n)
    /\ nodes[6].result = Kept(5, cfg.n2)
    /\ nodes[3].kind = "take" => Len(nodes[4].result) <= cfg.n
    /\ nodes[5].kind = "take" => Len(nodes[6].result) <= cfg.n2
    /\ IsMerge(nodes[3].got, nodes[5].got, SubSeq(cfg.items, 1, nodes[1].pos))

\* take(2) has yielded its two elements after take(1) had yielded its one
C37_Witness ==
  /\ cfg.shape = "shared" /\ cfg.op = "take" /\ cfg.op2 = "take"
  /\ cfg.n = 1 /\ cfg.n2 = 2
  /\ Len(cfg.items) = 3
  /\ nodes[4].result = <<cfg.items[1]>>
  /\ nodes[6].result = <<cfg.items[2], cfg.items[3]>>

\* drop(1) and drop(2) on one handle of three elements: the first skipped
\* the first element and yielded the second, the other then received the
\* third only, skipped it and ended
C37_WitnessDrops ==
  /\ cfg.shape = "shared" /\ cfg.op = "drop" /\ cfg.op2 = "drop"
  /\ cfg.n = 1 /\ cfg.n2 = 2
  /\ Len(cfg.items) = 3
  /\ nodes[4].result = <<cfg.items[2]>>
  /\ nodes[5].got = <<cfg.items[3]>>
  /\ Finished(6) /\ nodes[6].result = <<>>


\* ------------------------------------------------------------ shared handle: closing
\* the first reader of the shared handle is one that leaves its loop early
ShortCircuits ==
  /\ cfg.shape = "shared"
  /\ \/ cfg.op = "take" /\ cfg.n >= 1
     \/ cfg.op \in {"findMap", "filter"}

\* what every reader has been handed so far
Handed == [id \in DOMAIN nodes |-> nodes[id].got]

\* C38: on a shared handle whose first reader is take(n >= 1), findMap or
\* filter (node 3): whenever that reader has finished (take pulled after its
\* n elements, findMap or filter returned), the source (node 1) is closed;
\* and from a closed source no step hands any reader another element, the
\* source stays closed and hands out nothing more, whatever it still holds.
C38_ShortCircuitClosesUpstream ==
  [][ShortCircuits =>
       /\ Finished(3)' => Finished(1)'
       /\ Finished(1) => /\ Finished(1)'
                         /\ Handed' = Handed
                         /\ nodes'[1].pos = nodes[1].pos]_vars

\* take(1) over three elements was pulled again after its one element, and
\* the direct next() on the handle that followed was told the end
C38_Witness ==
  /\ ShortCircuits /\ cfg.op = "take" /\ cfg.n = 1 /\ cfg.op2 = "next"
  /\ Len(cfg.items) = 3
  /\ Finished(3) /\ nodes[3].got = <<cfg.items[1]>>
  /\ nodes[1].pos = 1
  /\ Finished(5) /\ nodes[5].got = <<>>

\* findMap returned on the second of three elements, and the map built on
\* the same handle, collected afterwards, came out empty
C38_WitnessFindMap ==
  /\ ShortCircuits /\ cfg.op = "findMap" /\ cfg.op2 = "map"
  /\ Len(cfg.items) = 3
  /\ Finished(3) /\ Len(nodes[3].calls) = 2 /\ nodes[3].ret # Undefined
  /\ nodes[1].pos = 2
  /\ Finished(5) /\ nodes[5].result = <<>>

\* filter returned on the first of three elements, and the direct next() on
\* the handle that followed was told the end
C38_WitnessFilter ==
  /\ ShortCircuits /\ cfg.op = "filter" /\ cfg.op2 = "next"
  /\ Len(cfg.items) = 3
  /\ Finished(3) /\ nodes[3].ret = cfg.items[1]
  /\ nodes[1].pos = 1
  /\ Finished(4) /\ nodes[4].got = <<>>


\* ------------------------------------------------------------ the None marker as an element
\* zip over two sources, or reduce over one, any of which may hold None
InitNone ==
  \/ \E k \in Kinds, k2 \in Kinds, s \in Sources, s2 \in Sources2 :
       Start(Zipped(Config("zip", k, s, 0, NoCallback, FALSE), k2, s2))
  \/ \E k \in Kinds, s \in Sources, a \in BOOLEAN :
       Start(Failing(Config("reduce", k, s, 0, NoCallback, a), Undefined))

StepNone ==
  \/ \E id \in DOMAIN nodes : zipNext(id)
  \/ \E id \in DOMAIN nodes : zipResolve1(id)
  \/ \E id \in DOMAIN nodes : zipResolve2(id)
  \/ \E id \in DOMAIN nodes : zipResume(id)
  \/ \E id \in DOMAIN nodes : reduce(id)

SpecNone == InitNone /\ [][StepNone]_vars

\* the place of the first None in s, or one past its end
FirstNone(s) ==
  IF NoneFree(s) THEN Len(s) + 1
  ELSE CHOOSE i \in 1 .. Len(s) : s[i] = None /\ NoneFree(SubSeq(s, 1, i - 1))

\* the pairs before the first step at which either source gave None or ended
PairsBeforeNone(a, b) == SubSeq(Pairs(a, b), 1, Min(FirstNone(a), FirstNone(b)) - 1)

\* C39: when either source of zip(a, b) holds None, the collected zip is the
\* pairs of the steps before the first one at which a source gave None, and no
\* pair of that step or of a later one, without an error; and reduce over a
\* source whose first element is None never invokes f and, once resolved, has
\* returned undefined without an error, whatever follows the None.
C39_NoneElementEndsZipAndReduce ==
  /\ (cfg.shape = "zip" /\ ~(NoneFree(cfg.items) /\ NoneFree(cfg.items2))) =>
       /\ IsPrefix(nodes[4].result, PairsBeforeNone(cfg.items, cfg.items2))
       /\ ~nodes[4].err
       /\ Finished(4) => nodes[4].result = PairsBeforeNone(cfg.items, cfg.items2)
  /\ (cfg.shape = "reduce" /\ cfg.items # <<>> /\ Head(cfg.items) = None) =>
       /\ nodes[2].calls = <<>>
       /\ nodes[2].pc # "loop"
       /\ Finished(2) => nodes[2].ret = Undefined /\ ~nodes[2].err

\* the first source holds None between two elements: one pair, then the end
C39_Witness ==
  /\ cfg.shape = "zip"
  /\ cfg.items = <<1, None, 2>> /\ cfg.items2 = <<3, 3, 3>>
  /\ Finished(4) /\ nodes[4].result = <<zipPair(1, 3)>>

\* the second source starts with None: no pair at all
C39_WitnessSecond ==
  /\ cfg.shape = "zip"
  /\ cfg.items = <<1, 2>> /\ cfg.items2 = <<None, 3>>
  /\ Finished(4) /\ nodes[4].result = <<>>

\* reduce over [None, 1, 2] has resolved with undefined
C39_WitnessReduce ==
  /\ cfg.shape = "reduce"
  /\ cfg.items = <<None, 1, 2>>
  /\ Finished(2) /\ nodes[2].ret = Undefined /\ nodes[2].calls = <<>>

====
